---- MODULE Spec2Model ----
(***************************************************************************)
(* Model of the N64 ROM ingestion pipeline of support/n64/n64.cpp:         *)
(* format detection, in-place normalisation, MD5 hashing with a header     *)
(* snapshot, the two database lookups, the heuristic resolver and the      *)
(* terminal actions of n64_rom_tx.                                         *)
(*                                                                         *)
(* Representation.  A byte is a number in 0..255 and a buffer is a         *)
(* sequence of bytes; C offset o is element o + 1.  TLC's integers are     *)
(* 32-bit signed, so a uint32_t is the pair <<high 16 bits, low 16 bits>>  *)
(* and a uint64_t is four 16-bit limbs, most significant first.  A C       *)
(* string is a sequence of one-character strings.                          *)
(***************************************************************************)
EXTENDS Integers, Sequences, FiniteSets, TLC

(***************************************************************************)
(* Enumerations (n64.cpp:23-69).  The values are the ones the code casts   *)
(* to uint32_t when it writes the configuration store.                     *)
(***************************************************************************)
NONE == 0
EEPROM_512 == 1
EEPROM_2k == 2
SRAM_32k == 3
SRAM_96k == 4
FLASH_128k == 5

CIC_NUS_6101 == 0
CIC_NUS_6102 == 1
CIC_NUS_7101 == 2
CIC_NUS_7102 == 3
CIC_NUS_6103 == 4
CIC_NUS_7103 == 5
CIC_NUS_6105 == 6
CIC_NUS_7105 == 7
CIC_NUS_6106 == 8
CIC_NUS_7106 == 9
CIC_NUS_8303 == 10
CIC_NUS_8401 == 11
CIC_NUS_5167 == 12
CIC_NUS_DDUS == 13

NTSC == 0
PAL == 1

UNKNOWN == 0
BIG_ENDIAN == 1
BYTE_SWAPPED == 2
LITTLE_ENDIAN == 3

ON == 0
OFF == 1

RomFormat == {UNKNOWN, BIG_ENDIAN, BYTE_SWAPPED, LITTLE_ENDIAN}

\* sizeof(buf): the working buffer and the chunk size of n64_rom_tx.
BUF_SIZE == 4096

Byte == 0..255

Min(a, b) == IF a < b THEN a ELSE b

\* F(v), with v evaluated once, before F is entered (sequencing of the
\* evaluation only: the value is F(v)).
With(F(_), v) == CHOOSE r \in {F(x) : x \in {v}} : TRUE

(***************************************************************************)
(* 32-bit and 64-bit unsigned values.                                      *)
(***************************************************************************)
U32(hi, lo) == <<hi, lo>>

\* Variant: the four bytes are read most significant first.
LoadU32BigEndian(data, off) ==
    U32(data[off + 1] * 256 + data[off + 2], data[off + 3] * 256 + data[off + 4])

\* *(uint32_t*)(data + off) on the little-endian host.
LoadU32(data, off) ==
    U32(data[off + 4] * 256 + data[off + 3], data[off + 2] * 256 + data[off + 1])

U64(l3, l2, l1, l0) == <<l3, l2, l1, l0>>

\* Variant: the accumulator is 32 bits wide.
Add64Narrow(acc, w) ==
    LET s0 == acc[4] + w[2]
        s1 == acc[3] + w[1] + (s0 \div 65536)
    IN  U64(0, 0, s1 % 65536, s0 % 65536)

\* acc += w for a uint64_t acc and a uint32_t w: addition modulo 2^64.
Add64(acc, w) ==
    LET s0 == acc[4] + w[2]
        s1 == acc[3] + w[1] + (s0 \div 65536)
        s2 == acc[2] + (s1 \div 65536)
        s3 == acc[1] + (s2 \div 65536)
    IN  U64(s3 % 65536, s2 % 65536, s1 % 65536, s0 % 65536)

(***************************************************************************)
(* detectRomFormat: the first four bytes, read as one host-order word.     *)
(***************************************************************************)
\* Variant: the little-endian magic values are not recognised.
detectRomFormatNoLittle(data) ==
    LET val == LoadU32(data, 0)
    IN  IF val = U32(\H4012, \H3780) \/ val = U32(\H4007, \H2780) THEN BIG_ENDIAN
        ELSE IF val = U32(\H1240, \H8037) \/ val = U32(\H0740, \H8027) THEN BYTE_SWAPPED
        ELSE UNKNOWN

detectRomFormat(data) ==
    LET val == LoadU32(data, 0)
    IN  IF val = U32(\H4012, \H3780) \/ val = U32(\H4007, \H2780) THEN BIG_ENDIAN
        ELSE IF val = U32(\H1240, \H8037) \/ val = U32(\H0740, \H8027) THEN BYTE_SWAPPED
        ELSE IF val = U32(\H8037, \H1240) \/ val = U32(\H8027, \H0740) THEN LITTLE_ENDIAN
        ELSE UNKNOWN

(***************************************************************************)
(* normalizeData(data, size, format), in place.  The loops step by 2       *)
(* (resp. 4) while i < size and always touch a whole group, so they swap   *)
(* every group that starts below size: the bytes at offsets below size     *)
(* rounded up to the group length.  The result is the whole buffer.        *)
(***************************************************************************)
GroupLen(format) ==
    IF format = BYTE_SWAPPED THEN 2 ELSE IF format = LITTLE_ENDIAN THEN 4 ELSE 1

\* The first offset the loop of normalizeData does not touch.
TouchedEnd(size, format) ==
    ((size + GroupLen(format) - 1) \div GroupLen(format)) * GroupLen(format)

\* Whether normalizeData stays inside a buffer of Len(data) bytes.
NormalizeInBounds(data, size, format) == TouchedEnd(size, format) <= Len(data)

\* Variant: the little-endian branch reverses the touched bytes as one
\* group instead of word by word.
normalizeDataWhole(data, size, format) ==
    [p \in 1..Len(data) |->
        IF p <= TouchedEnd(size, format)
        THEN IF format = LITTLE_ENDIAN
             THEN data[TouchedEnd(size, format) + 1 - p]
             ELSE data[((p - 1) \div GroupLen(format)) * GroupLen(format)
                       + (GroupLen(format) - ((p - 1) % GroupLen(format)))]
        ELSE data[p]]

\* Variant: every branch that touches the data rotates a group by one byte
\* instead of reversing it.
normalizeDataRotate(data, size, format) ==
    [p \in 1..Len(data) |->
        IF p <= TouchedEnd(size, format)
        THEN data[((p - 1) \div GroupLen(format)) * GroupLen(format)
                  + (p % GroupLen(format)) + 1]
        ELSE data[p]]

normalizeData(data, size, format) ==
    LET g == GroupLen(format)
    IN  [p \in 1..Len(data) |->
            IF p <= TouchedEnd(size, format)
            THEN data[((p - 1) \div g) * g + (g - ((p - 1) % g))]
            ELSE data[p]]

(***************************************************************************)
(* Characters and strings.                                                 *)
(***************************************************************************)
Digits == <<"0", "1", "2", "3", "4", "5", "6", "7", "8", "9">>
UpperCase == <<"A", "B", "C", "D", "E", "F", "G", "H", "I", "J", "K", "L", "M",
               "N", "O", "P", "Q", "R", "S", "T", "U", "V", "W", "X", "Y", "Z">>
LowerCase == <<"a", "b", "c", "d", "e", "f", "g", "h", "i", "j", "k", "l", "m",
               "n", "o", "p", "q", "r", "s", "t", "u", "v", "w", "x", "y", "z">>

IndexIn(seq, c) == CHOOSE i \in 1..Len(seq) : seq[i] = c
IsIn(seq, c) == \E i \in 1..Len(seq) : seq[i] = c

\* The character code of a digit or letter.
Ord(c) ==
    IF IsIn(Digits, c) THEN 47 + IndexIn(Digits, c)
    ELSE IF IsIn(UpperCase, c) THEN 64 + IndexIn(UpperCase, c)
    ELSE 96 + IndexIn(LowerCase, c)

\* tolower(c).
tolower(c) == IF IsIn(UpperCase, c) THEN LowerCase[IndexIn(UpperCase, c)] ELSE c

\* normalizeString: the string changed to lower case.
normalizeString(s) == [i \in 1..Len(s) |-> tolower(s[i])]

(***************************************************************************)
(* lib/md5.  The context is a fixed-size chaining state and a byte count;  *)
(* MD5Update absorbs the bytes one after the other; MD5Final derives the   *)
(* 16-byte digest from the context and wipes the context.  The chaining    *)
(* function stands in for MD5's compression function.                      *)
(***************************************************************************)
MD5_MOD == 65521

MD5Init == [a |-> 1, b |-> 0, n |-> 0]

MD5Absorb(ctx, byte) ==
    LET a == (ctx.a + byte) % MD5_MOD
    IN  [a |-> a, b |-> (ctx.b + a) % MD5_MOD, n |-> ctx.n + 1]

\* The bytes data[lo..hi] absorbed in order.  The range is split in halves,
\* and the left half is evaluated before the right one is entered, only to
\* keep the evaluation shallow: the order of absorption is lo, lo+1, ..., hi.
RECURSIVE MD5AbsorbRange(_, _, _, _)
MD5AbsorbRange(ctx, data, lo, hi) ==
    IF lo > hi THEN ctx
    ELSE IF lo = hi THEN MD5Absorb(ctx, data[lo])
    ELSE With(LAMBDA left : MD5AbsorbRange(left, data, ((lo + hi) \div 2) + 1, hi),
              MD5AbsorbRange(ctx, data, lo, (lo + hi) \div 2))

\* MD5Update(&ctx, buf, len).
MD5Update(ctx, data, len) == MD5AbsorbRange(ctx, data, 1, len)

\* The digest MD5Final writes to its first argument.
MD5Digest(ctx) ==
    LET c == (ctx.a + 2 * ctx.b + ctx.n) % MD5_MOD
        d == (3 * ctx.a + ctx.b + 5 * ctx.n) % MD5_MOD
    IN  << ctx.a \div 256, ctx.a % 256, ctx.b \div 256, ctx.b % 256,
           (ctx.n \div 16777216) % 256, (ctx.n \div 65536) % 256,
           (ctx.n \div 256) % 256, ctx.n % 256,
           c \div 256, c % 256, d \div 256, d % 256,
           (ctx.a + ctx.b) % 256, (ctx.a + ctx.n) % 256,
           (ctx.b + ctx.n) % 256, (c + d) % 256 >>

\* The context MD5Final leaves behind.
MD5Wiped == [a |-> 0, b |-> 0, n |-> 0]

(***************************************************************************)
(* md5_to_hex: two lower-case hexadecimal digits per byte.                 *)
(***************************************************************************)
HexDigits == <<"0", "1", "2", "3", "4", "5", "6", "7", "8", "9",
               "a", "b", "c", "d", "e", "f">>

md5_to_hex(in) ==
    [i \in 1..32 |->
        IF i % 2 = 1 THEN HexDigits[(in[(i + 1) \div 2] \div 16) + 1]
        ELSE HexDigits[(in[i \div 2] % 16) + 1]]

(***************************************************************************)
(* The configuration store: user_io_status_set(field, value) is recorded   *)
(* as the pair <<field, value>>.                                           *)
(***************************************************************************)
F_AUTO == "[64]"
F_SYSTEM == "[80:79]"
F_CIC == "[68:65]"
F_CPAK == "[71]"
F_RPAK == "[72]"
F_TPAK == "[73]"
F_RTC == "[74]"
F_SAVE == "[77:75]"

ProfileFields == {F_SYSTEM, F_CIC, F_CPAK, F_RPAK, F_TPAK, F_RTC, F_SAVE}

\* (uint32_t) of a bool.
B2N(b) == IF b THEN 1 ELSE 0

(***************************************************************************)
(* detect_rom_settings_in_db.  A database file is [exists, lines]; a line  *)
(* is [head, hasTags, tags]: head is the line's leading characters (at     *)
(* most 32), hasTags says whether sscanf("%*s %s") finds a second token,   *)
(* and tags is the sequence of tokens strtok cuts that token into at "|".  *)
(***************************************************************************)
T_eeprom512 == <<"e", "e", "p", "r", "o", "m", "5", "1", "2">>
T_eeprom2k == <<"e", "e", "p", "r", "o", "m", "2", "k">>
T_sram32k == <<"s", "r", "a", "m", "3", "2", "k">>
T_sram96k == <<"s", "r", "a", "m", "9", "6", "k">>
T_flash128k == <<"f", "l", "a", "s", "h", "1", "2", "8", "k">>
T_ntsc == <<"n", "t", "s", "c">>
T_pal == <<"p", "a", "l">>
T_cpak == <<"c", "p", "a", "k">>
T_rpak == <<"r", "p", "a", "k">>
T_tpak == <<"t", "p", "a", "k">>
T_rtc == <<"r", "t", "c">>
T_cic(a, b, c, d) == <<"c", "i", "c", a, b, c, d>>

\* The locals of detect_rom_settings_in_db before the tags are read.
DefaultProfile ==
    [save_type |-> NONE, system_type |-> NTSC, cic |-> CIC_NUS_6102,
     cpak |-> FALSE, rpak |-> FALSE, tpak |-> FALSE, rtc |-> FALSE]

\* One pass of the tag loop: normalizeString(tag), then switch (fnv_hash(tag)).
\* The switch is a dispatch on the string: a case is taken when the
\* lower-cased tag equals the case's literal.
ApplyTag(p, rawtag) ==
    LET tag == normalizeString(rawtag)
    IN  CASE tag = T_eeprom512 -> [p EXCEPT !.save_type = EEPROM_512]
          [] tag = T_eeprom2k -> [p EXCEPT !.save_type = EEPROM_2k]
          [] tag = T_sram32k -> [p EXCEPT !.save_type = SRAM_32k]
          [] tag = T_sram96k -> [p EXCEPT !.save_type = SRAM_96k]
          [] tag = T_flash128k -> [p EXCEPT !.save_type = FLASH_128k]
          [] tag = T_ntsc -> [p EXCEPT !.system_type = NTSC]
          [] tag = T_pal -> [p EXCEPT !.system_type = PAL]
          [] tag = T_cpak -> [p EXCEPT !.cpak = TRUE]
          [] tag = T_rpak -> [p EXCEPT !.rpak = TRUE]
          [] tag = T_tpak -> [p EXCEPT !.tpak = TRUE]
          [] tag = T_rtc -> [p EXCEPT !.rtc = TRUE]
          [] tag = T_cic("6", "1", "0", "1") -> [p EXCEPT !.cic = CIC_NUS_6101]
          [] tag = T_cic("6", "1", "0", "2") -> [p EXCEPT !.cic = CIC_NUS_6102]
          [] tag = T_cic("6", "1", "0", "3") -> [p EXCEPT !.cic = CIC_NUS_6103]
          [] tag = T_cic("6", "1", "0", "5") -> [p EXCEPT !.cic = CIC_NUS_6105]
          [] tag = T_cic("6", "1", "0", "6") -> [p EXCEPT !.cic = CIC_NUS_6106]
          [] tag = T_cic("7", "1", "0", "1") -> [p EXCEPT !.cic = CIC_NUS_7101]
          [] tag = T_cic("7", "1", "0", "2") -> [p EXCEPT !.cic = CIC_NUS_7102]
          [] tag = T_cic("7", "1", "0", "3") -> [p EXCEPT !.cic = CIC_NUS_7103]
          [] tag = T_cic("7", "1", "0", "5") -> [p EXCEPT !.cic = CIC_NUS_7105]
          [] tag = T_cic("7", "1", "0", "6") -> [p EXCEPT !.cic = CIC_NUS_7106]
          [] tag = T_cic("8", "3", "0", "3") -> [p EXCEPT !.cic = CIC_NUS_8303]
          [] tag = T_cic("8", "4", "0", "1") -> [p EXCEPT !.cic = CIC_NUS_8401]
          [] tag = T_cic("5", "1", "6", "7") -> [p EXCEPT !.cic = CIC_NUS_5167]
          [] tag = T_cic("D", "D", "U", "S") -> [p EXCEPT !.cic = CIC_NUS_DDUS]
          [] OTHER -> p

\* The tag loop over tags[i..].
RECURSIVE ApplyTags(_, _, _)
ApplyTags(p, tags, i) ==
    IF i > Len(tags) THEN p ELSE ApplyTags(ApplyTag(p, tags[i]), tags, i + 1)

\* Variant: only the settings that differ from the defaults are written.
DbWritesChangedOnly(p) ==
    SelectSeq(<< <<F_SYSTEM, p.system_type>>, <<F_CIC, p.cic>>, <<F_CPAK, B2N(p.cpak)>>,
                 <<F_RPAK, B2N(p.rpak)>>, <<F_TPAK, B2N(p.tpak)>>, <<F_RTC, B2N(p.rtc)>>,
                 <<F_SAVE, p.save_type>> >>,
              LAMBDA w : w[2] # 0 /\ w # <<F_CIC, CIC_NUS_6102>>)

\* The seven user_io_status_set calls of a database hit, in order.
DbWrites(p) ==
    << <<F_SYSTEM, p.system_type>>, <<F_CIC, p.cic>>, <<F_CPAK, B2N(p.cpak)>>,
       <<F_RPAK, B2N(p.rpak)>>, <<F_TPAK, B2N(p.tpak)>>, <<F_RTC, B2N(p.rtc)>>,
       <<F_SAVE, p.save_type>> >>

\* strncmp(lookup_hash, line, 32) == 0, lookup_hash being 32 characters.
HashMatches(lookup_hash, line) == line.head = lookup_hash

\* Variant: the scan does not stop at a matching line; the last one wins.
MatchingLineLast(lookup_hash, lines) ==
    LET hits == {i \in 1..Len(lines) :
                    HashMatches(lookup_hash, lines[i]) /\ lines[i].hasTags}
    IN  IF hits = {} THEN 0 ELSE CHOOSE i \in hits : \A j \in hits : i >= j

\* The line the scan stops at (0: none): the first one that starts with
\* the hash and has a tags token.
MatchingLine(lookup_hash, lines) ==
    LET hits == {i \in 1..Len(lines) :
                    HashMatches(lookup_hash, lines[i]) /\ lines[i].hasTags}
    IN  IF hits = {} THEN 0 ELSE CHOOSE i \in hits : \A j \in hits : i <= j

\* Variant: the profile is written whatever the auto-detect flag reads.
detect_rom_settings_in_dbForce(lookup_hash, file, auto_detect) ==
    IF ~file.exists THEN [found |-> FALSE, writes |-> <<>>]
    ELSE LET i == MatchingLine(lookup_hash, file.lines)
         IN  IF i = 0 THEN [found |-> FALSE, writes |-> <<>>]
             ELSE [found |-> TRUE,
                   writes |-> DbWrites(ApplyTags(DefaultProfile, file.lines[i].tags, 1))]

\* Variant: a file that cannot be opened is reported as a hit.
detect_rom_settings_in_dbOpenFailFound(lookup_hash, file, auto_detect) ==
    IF ~file.exists THEN [found |-> TRUE, writes |-> <<>>]
    ELSE LET i == MatchingLine(lookup_hash, file.lines)
         IN  IF i = 0 THEN [found |-> FALSE, writes |-> <<>>]
             ELSE [found |-> TRUE,
                   writes |-> IF auto_detect = ON
                              THEN DbWrites(ApplyTags(DefaultProfile, file.lines[i].tags, 1))
                              ELSE <<>>]

\* detect_rom_settings_in_db(lookup_hash, db_file_name), the file being
\* file and user_io_status_get("[64]") being auto_detect: the value
\* returned and the configuration writes made.
detect_rom_settings_in_db(lookup_hash, file, auto_detect) ==
    IF ~file.exists THEN [found |-> FALSE, writes |-> <<>>]
    ELSE LET i == MatchingLine(lookup_hash, file.lines)
         IN  IF i = 0 THEN [found |-> FALSE, writes |-> <<>>]
             ELSE [found |-> TRUE,
                   writes |-> IF auto_detect = ON
                              THEN DbWrites(ApplyTags(DefaultProfile, file.lines[i].tags, 1))
                              ELSE <<>>]

\* detect_rom_settings_in_dbs: DB_FILE_NAMES in order, dbs[k] being the
\* k-th of them; the first file that reports a hit ends the search.
RECURSIVE detect_rom_settings_in_dbs_from(_, _, _, _)
detect_rom_settings_in_dbs_from(lookup_hash, dbs, auto_detect, k) ==
    IF k > Len(dbs) THEN [found |-> FALSE, writes |-> <<>>]
    ELSE LET r == detect_rom_settings_in_db(lookup_hash, dbs[k], auto_detect)
         IN  IF r.found THEN r
             ELSE detect_rom_settings_in_dbs_from(lookup_hash, dbs, auto_detect, k + 1)

detect_rom_settings_in_dbs(lookup_hash, dbs, auto_detect) ==
    detect_rom_settings_in_dbs_from(lookup_hash, dbs, auto_detect, 1)

(***************************************************************************)
(* detect_rom_settings_from_first_chunk.                                   *)
(***************************************************************************)
\* A C string held in a char array: the characters before the first NUL.
RECURSIVE CString(_)
CString(bytes) ==
    IF bytes = <<>> \/ Head(bytes) = 0 THEN <<>>
    ELSE <<Head(bytes)>> \o CString(Tail(bytes))

\* The character codes of a three-letter cartridge id.
Id3(a, b, c) == <<Ord(a), Ord(b), Ord(c)>>

CartRow(a, b, c, save, cp, rp, tp, rt) ==
    [id |-> Id3(a, b, c), save_type |-> save, cpak |-> cp, rpak |-> rp,
     tpak |-> tp, rtc |-> rt]

\* The one-line cases of switch (fnv_hash(id)), n64.cpp:320-720, in source
\* order: id, save_type, cpak, rpak, tpak, rtc.
CartTable == <<
    CartRow("N", "T", "W", EEPROM_512, TRUE, FALSE, FALSE, FALSE),
    CartRow("N", "H", "F", EEPROM_512, FALSE, FALSE, FALSE, FALSE),
    CartRow("N", "O", "S", EEPROM_512, TRUE, TRUE, FALSE, FALSE),
    CartRow("N", "T", "C", EEPROM_512, FALSE, TRUE, FALSE, FALSE),
    CartRow("N", "E", "R", EEPROM_512, FALSE, TRUE, FALSE, FALSE),
    CartRow("N", "A", "G", EEPROM_512, TRUE, FALSE, FALSE, FALSE),
    CartRow("N", "A", "B", EEPROM_512, TRUE, TRUE, FALSE, FALSE),
    CartRow("N", "S", "3", EEPROM_512, TRUE, FALSE, FALSE, FALSE),
    CartRow("N", "T", "N", EEPROM_512, FALSE, FALSE, FALSE, FALSE),
    CartRow("N", "B", "N", EEPROM_512, TRUE, FALSE, FALSE, FALSE),
    CartRow("N", "B", "K", EEPROM_512, FALSE, TRUE, FALSE, FALSE),
    CartRow("N", "F", "H", EEPROM_512, FALSE, TRUE, FALSE, FALSE),
    CartRow("N", "M", "U", EEPROM_512, TRUE, TRUE, FALSE, FALSE),
    CartRow("N", "B", "C", EEPROM_512, TRUE, FALSE, FALSE, FALSE),
    CartRow("N", "B", "H", EEPROM_512, FALSE, TRUE, FALSE, FALSE),
    CartRow("N", "H", "A", EEPROM_512, TRUE, FALSE, FALSE, FALSE),
    CartRow("N", "B", "M", EEPROM_512, TRUE, FALSE, FALSE, FALSE),
    CartRow("N", "B", "V", EEPROM_512, TRUE, TRUE, FALSE, FALSE),
    CartRow("N", "B", "D", EEPROM_512, FALSE, TRUE, FALSE, FALSE),
    CartRow("N", "C", "T", EEPROM_512, FALSE, TRUE, FALSE, FALSE),
    CartRow("N", "C", "H", EEPROM_512, FALSE, TRUE, FALSE, FALSE),
    CartRow("N", "C", "G", EEPROM_512, TRUE, TRUE, TRUE, FALSE),
    CartRow("N", "P", "2", EEPROM_512, TRUE, TRUE, FALSE, FALSE),
    CartRow("N", "X", "O", EEPROM_512, FALSE, TRUE, FALSE, FALSE),
    CartRow("N", "C", "U", EEPROM_512, TRUE, FALSE, FALSE, FALSE),
    CartRow("N", "C", "X", EEPROM_512, FALSE, FALSE, FALSE, FALSE),
    CartRow("N", "D", "Y", EEPROM_512, TRUE, TRUE, FALSE, FALSE),
    CartRow("N", "D", "Q", EEPROM_512, TRUE, FALSE, FALSE, FALSE),
    CartRow("N", "D", "R", EEPROM_512, FALSE, FALSE, FALSE, FALSE),
    CartRow("N", "N", "6", EEPROM_512, FALSE, FALSE, FALSE, FALSE),
    CartRow("N", "D", "U", EEPROM_512, FALSE, TRUE, FALSE, FALSE),
    CartRow("N", "J", "M", EEPROM_512, FALSE, FALSE, FALSE, FALSE),
    CartRow("N", "F", "W", EEPROM_512, FALSE, TRUE, FALSE, FALSE),
    CartRow("N", "F", "2", EEPROM_512, FALSE, TRUE, FALSE, FALSE),
    CartRow("N", "K", "A", EEPROM_512, TRUE, TRUE, FALSE, FALSE),
    CartRow("N", "F", "G", EEPROM_512, TRUE, TRUE, FALSE, FALSE),
    CartRow("N", "G", "L", EEPROM_512, TRUE, TRUE, FALSE, FALSE),
    CartRow("N", "G", "V", EEPROM_512, FALSE, FALSE, FALSE, FALSE),
    CartRow("N", "G", "E", EEPROM_512, FALSE, TRUE, FALSE, FALSE),
    CartRow("N", "H", "P", EEPROM_512, FALSE, FALSE, FALSE, FALSE),
    CartRow("N", "P", "G", EEPROM_512, FALSE, TRUE, FALSE, FALSE),
    CartRow("N", "I", "J", EEPROM_512, FALSE, TRUE, FALSE, FALSE),
    CartRow("N", "I", "C", EEPROM_512, FALSE, TRUE, FALSE, FALSE),
    CartRow("N", "F", "Y", EEPROM_512, TRUE, TRUE, FALSE, FALSE),
    CartRow("N", "K", "I", EEPROM_512, TRUE, FALSE, FALSE, FALSE),
    CartRow("N", "L", "L", EEPROM_512, FALSE, TRUE, FALSE, FALSE),
    CartRow("N", "L", "R", EEPROM_512, FALSE, TRUE, FALSE, FALSE),
    CartRow("N", "K", "T", EEPROM_512, TRUE, FALSE, FALSE, FALSE),
    CartRow("C", "L", "B", EEPROM_512, FALSE, TRUE, FALSE, FALSE),
    CartRow("N", "L", "B", EEPROM_512, FALSE, TRUE, FALSE, FALSE),
    CartRow("N", "M", "W", EEPROM_512, FALSE, TRUE, FALSE, FALSE),
    CartRow("N", "M", "L", EEPROM_512, FALSE, TRUE, TRUE, FALSE),
    CartRow("N", "T", "M", EEPROM_512, FALSE, FALSE, FALSE, FALSE),
    CartRow("N", "M", "I", EEPROM_512, FALSE, TRUE, FALSE, FALSE),
    CartRow("N", "M", "G", EEPROM_512, TRUE, TRUE, FALSE, FALSE),
    CartRow("N", "M", "O", EEPROM_512, FALSE, FALSE, FALSE, FALSE),
    CartRow("N", "M", "S", EEPROM_512, TRUE, FALSE, FALSE, FALSE),
    CartRow("N", "M", "R", EEPROM_512, TRUE, TRUE, FALSE, FALSE),
    CartRow("N", "C", "R", EEPROM_512, TRUE, FALSE, FALSE, FALSE),
    CartRow("N", "E", "A", EEPROM_512, FALSE, FALSE, FALSE, FALSE),
    CartRow("N", "P", "W", EEPROM_512, FALSE, FALSE, FALSE, FALSE),
    CartRow("N", "P", "Y", EEPROM_512, FALSE, TRUE, FALSE, FALSE),
    CartRow("N", "P", "T", EEPROM_512, FALSE, TRUE, TRUE, FALSE),
    CartRow("N", "R", "A", EEPROM_512, TRUE, TRUE, FALSE, FALSE),
    CartRow("N", "W", "Q", EEPROM_512, TRUE, TRUE, FALSE, FALSE),
    CartRow("N", "S", "U", EEPROM_512, FALSE, TRUE, FALSE, FALSE),
    CartRow("N", "S", "N", EEPROM_512, TRUE, TRUE, FALSE, FALSE),
    CartRow("N", "K", "2", EEPROM_512, FALSE, TRUE, FALSE, FALSE),
    CartRow("N", "S", "V", EEPROM_512, FALSE, TRUE, FALSE, FALSE),
    CartRow("N", "F", "X", EEPROM_512, FALSE, TRUE, FALSE, FALSE),
    CartRow("N", "S", "6", EEPROM_512, FALSE, TRUE, FALSE, FALSE),
    CartRow("N", "N", "A", EEPROM_512, FALSE, TRUE, FALSE, FALSE),
    CartRow("N", "R", "S", EEPROM_512, FALSE, TRUE, FALSE, FALSE),
    CartRow("N", "S", "W", EEPROM_512, FALSE, FALSE, FALSE, FALSE),
    CartRow("N", "S", "C", EEPROM_512, FALSE, FALSE, FALSE, FALSE),
    CartRow("N", "S", "A", EEPROM_512, FALSE, TRUE, FALSE, FALSE),
    CartRow("N", "B", "6", EEPROM_512, TRUE, FALSE, TRUE, FALSE),
    CartRow("N", "S", "S", EEPROM_512, FALSE, TRUE, FALSE, FALSE),
    CartRow("N", "T", "X", EEPROM_512, FALSE, TRUE, FALSE, FALSE),
    CartRow("N", "T", "6", EEPROM_512, FALSE, FALSE, FALSE, FALSE),
    CartRow("N", "T", "P", EEPROM_512, FALSE, FALSE, FALSE, FALSE),
    CartRow("N", "T", "J", EEPROM_512, FALSE, TRUE, FALSE, FALSE),
    CartRow("N", "R", "C", EEPROM_512, FALSE, TRUE, FALSE, FALSE),
    CartRow("N", "T", "R", EEPROM_512, TRUE, TRUE, FALSE, FALSE),
    CartRow("N", "T", "B", EEPROM_512, FALSE, TRUE, FALSE, FALSE),
    CartRow("N", "G", "U", EEPROM_512, FALSE, TRUE, FALSE, FALSE),
    CartRow("N", "I", "R", EEPROM_512, FALSE, TRUE, FALSE, FALSE),
    CartRow("N", "V", "L", EEPROM_512, FALSE, TRUE, FALSE, FALSE),
    CartRow("N", "V", "Y", EEPROM_512, FALSE, TRUE, FALSE, FALSE),
    CartRow("N", "W", "C", EEPROM_512, FALSE, TRUE, FALSE, FALSE),
    CartRow("N", "A", "D", EEPROM_512, FALSE, FALSE, FALSE, FALSE),
    CartRow("N", "W", "U", EEPROM_512, FALSE, FALSE, FALSE, FALSE),
    CartRow("N", "Y", "K", EEPROM_512, FALSE, TRUE, FALSE, FALSE),
    CartRow("N", "M", "Z", EEPROM_512, FALSE, FALSE, FALSE, FALSE),
    CartRow("N", "B", "7", EEPROM_2k, FALSE, TRUE, FALSE, FALSE),
    CartRow("N", "G", "T", EEPROM_2k, TRUE, TRUE, FALSE, FALSE),
    CartRow("N", "F", "U", EEPROM_2k, FALSE, TRUE, FALSE, FALSE),
    CartRow("N", "C", "W", EEPROM_2k, FALSE, TRUE, FALSE, FALSE),
    CartRow("N", "C", "Z", EEPROM_2k, FALSE, TRUE, FALSE, FALSE),
    CartRow("N", "D", "6", EEPROM_2k, FALSE, TRUE, FALSE, FALSE),
    CartRow("N", "D", "O", EEPROM_2k, FALSE, TRUE, FALSE, FALSE),
    CartRow("N", "D", "2", EEPROM_2k, FALSE, TRUE, FALSE, FALSE),
    CartRow("N", "3", "D", EEPROM_2k, FALSE, TRUE, FALSE, FALSE),
    CartRow("N", "M", "X", EEPROM_2k, TRUE, TRUE, FALSE, FALSE),
    CartRow("N", "G", "C", EEPROM_2k, TRUE, TRUE, FALSE, FALSE),
    CartRow("N", "I", "M", EEPROM_2k, FALSE, FALSE, FALSE, FALSE),
    CartRow("N", "N", "B", EEPROM_2k, TRUE, TRUE, FALSE, FALSE),
    CartRow("N", "M", "V", EEPROM_2k, FALSE, TRUE, FALSE, FALSE),
    CartRow("N", "M", "8", EEPROM_2k, FALSE, TRUE, TRUE, FALSE),
    CartRow("N", "E", "V", EEPROM_2k, FALSE, TRUE, FALSE, FALSE),
    CartRow("N", "P", "P", EEPROM_2k, TRUE, FALSE, FALSE, FALSE),
    CartRow("N", "U", "B", EEPROM_2k, TRUE, FALSE, TRUE, FALSE),
    CartRow("N", "P", "D", EEPROM_2k, TRUE, TRUE, TRUE, FALSE),
    CartRow("N", "R", "Z", EEPROM_2k, FALSE, TRUE, FALSE, FALSE),
    CartRow("N", "R", "7", EEPROM_2k, FALSE, FALSE, TRUE, FALSE),
    CartRow("N", "E", "P", EEPROM_2k, FALSE, TRUE, FALSE, FALSE),
    CartRow("N", "Y", "S", EEPROM_2k, FALSE, TRUE, FALSE, FALSE),
    CartRow("N", "T", "E", SRAM_32k, FALSE, TRUE, FALSE, FALSE),
    CartRow("N", "V", "B", SRAM_32k, FALSE, TRUE, FALSE, FALSE),
    CartRow("N", "B", "5", SRAM_32k, FALSE, TRUE, FALSE, FALSE),
    CartRow("C", "F", "Z", SRAM_32k, FALSE, TRUE, FALSE, FALSE),
    CartRow("N", "F", "Z", SRAM_32k, FALSE, TRUE, FALSE, FALSE),
    CartRow("N", "S", "I", SRAM_32k, TRUE, FALSE, FALSE, FALSE),
    CartRow("N", "G", "6", SRAM_32k, FALSE, TRUE, FALSE, FALSE),
    CartRow("N", "G", "P", SRAM_32k, TRUE, FALSE, FALSE, FALSE),
    CartRow("N", "Y", "W", SRAM_32k, TRUE, FALSE, FALSE, FALSE),
    CartRow("N", "H", "Y", SRAM_32k, TRUE, TRUE, FALSE, FALSE),
    CartRow("N", "I", "B", SRAM_32k, FALSE, TRUE, FALSE, FALSE),
    CartRow("N", "P", "S", SRAM_32k, TRUE, TRUE, FALSE, FALSE),
    CartRow("N", "P", "A", SRAM_32k, TRUE, FALSE, TRUE, FALSE),
    CartRow("N", "P", "4", SRAM_32k, TRUE, FALSE, FALSE, FALSE),
    CartRow("N", "J", "5", SRAM_32k, TRUE, FALSE, FALSE, FALSE),
    CartRow("N", "P", "6", SRAM_32k, TRUE, FALSE, TRUE, FALSE),
    CartRow("N", "P", "E", SRAM_32k, TRUE, FALSE, FALSE, FALSE),
    CartRow("N", "J", "G", SRAM_32k, FALSE, TRUE, FALSE, FALSE),
    CartRow("C", "Z", "L", SRAM_32k, FALSE, TRUE, FALSE, FALSE),
    CartRow("N", "Z", "L", SRAM_32k, FALSE, TRUE, FALSE, FALSE),
    CartRow("N", "K", "G", SRAM_32k, TRUE, TRUE, FALSE, FALSE),
    CartRow("N", "M", "F", SRAM_32k, FALSE, TRUE, TRUE, FALSE),
    CartRow("N", "R", "I", SRAM_32k, TRUE, FALSE, FALSE, FALSE),
    CartRow("N", "U", "T", SRAM_32k, TRUE, TRUE, TRUE, FALSE),
    CartRow("N", "U", "M", SRAM_32k, FALSE, TRUE, TRUE, FALSE),
    CartRow("N", "O", "B", SRAM_32k, FALSE, FALSE, FALSE, FALSE),
    CartRow("C", "P", "S", SRAM_32k, FALSE, FALSE, TRUE, FALSE),
    CartRow("N", "P", "M", SRAM_32k, TRUE, FALSE, FALSE, FALSE),
    CartRow("N", "R", "E", SRAM_32k, FALSE, TRUE, FALSE, FALSE),
    CartRow("N", "A", "L", SRAM_32k, FALSE, TRUE, FALSE, FALSE),
    CartRow("N", "T", "3", SRAM_32k, TRUE, FALSE, FALSE, FALSE),
    CartRow("N", "S", "4", SRAM_32k, TRUE, FALSE, TRUE, FALSE),
    CartRow("N", "A", "2", SRAM_32k, TRUE, TRUE, FALSE, FALSE),
    CartRow("N", "V", "P", SRAM_32k, TRUE, TRUE, FALSE, FALSE),
    CartRow("N", "W", "L", SRAM_32k, FALSE, TRUE, FALSE, FALSE),
    CartRow("N", "W", "2", SRAM_32k, FALSE, TRUE, FALSE, FALSE),
    CartRow("N", "W", "X", SRAM_32k, TRUE, TRUE, FALSE, FALSE),
    CartRow("C", "D", "Z", SRAM_96k, FALSE, TRUE, FALSE, FALSE),
    CartRow("N", "C", "C", FLASH_128k, FALSE, TRUE, FALSE, FALSE),
    CartRow("N", "D", "A", FLASH_128k, TRUE, FALSE, FALSE, FALSE),
    CartRow("N", "A", "F", FLASH_128k, TRUE, FALSE, FALSE, TRUE),
    CartRow("N", "J", "F", FLASH_128k, FALSE, TRUE, FALSE, FALSE),
    CartRow("N", "K", "J", FLASH_128k, FALSE, TRUE, FALSE, FALSE),
    CartRow("N", "Z", "S", FLASH_128k, FALSE, TRUE, FALSE, FALSE),
    CartRow("N", "M", "6", FLASH_128k, FALSE, TRUE, FALSE, FALSE),
    CartRow("N", "C", "K", FLASH_128k, FALSE, TRUE, FALSE, FALSE),
    CartRow("N", "M", "Q", FLASH_128k, FALSE, TRUE, FALSE, FALSE),
    CartRow("N", "P", "N", FLASH_128k, FALSE, FALSE, FALSE, FALSE),
    CartRow("N", "P", "F", FLASH_128k, FALSE, FALSE, FALSE, FALSE),
    CartRow("N", "P", "O", FLASH_128k, FALSE, FALSE, TRUE, FALSE),
    CartRow("C", "P", "2", FLASH_128k, FALSE, FALSE, TRUE, FALSE),
    CartRow("N", "P", "3", FLASH_128k, FALSE, FALSE, TRUE, FALSE),
    CartRow("N", "R", "H", FLASH_128k, FALSE, TRUE, FALSE, FALSE),
    CartRow("N", "S", "Q", FLASH_128k, FALSE, TRUE, FALSE, FALSE),
    CartRow("N", "T", "9", FLASH_128k, FALSE, FALSE, FALSE, FALSE),
    CartRow("N", "W", "4", FLASH_128k, TRUE, TRUE, FALSE, FALSE),
    CartRow("N", "D", "P", FLASH_128k, FALSE, FALSE, FALSE, FALSE),
    CartRow("N", "O", "7", NONE, TRUE, TRUE, FALSE, FALSE),
    CartRow("N", "A", "Y", NONE, TRUE, FALSE, FALSE, FALSE),
    CartRow("N", "B", "S", NONE, TRUE, TRUE, FALSE, FALSE),
    CartRow("N", "B", "E", NONE, TRUE, TRUE, FALSE, FALSE),
    CartRow("N", "A", "S", NONE, TRUE, TRUE, FALSE, FALSE),
    CartRow("N", "A", "R", NONE, TRUE, TRUE, FALSE, FALSE),
    CartRow("N", "A", "C", NONE, TRUE, TRUE, FALSE, FALSE),
    CartRow("N", "A", "M", NONE, TRUE, TRUE, FALSE, FALSE),
    CartRow("N", "3", "2", NONE, TRUE, TRUE, FALSE, FALSE),
    CartRow("N", "A", "H", NONE, TRUE, TRUE, FALSE, FALSE),
    CartRow("N", "L", "C", NONE, TRUE, TRUE, FALSE, FALSE),
    CartRow("N", "B", "J", NONE, TRUE, FALSE, FALSE, FALSE),
    CartRow("N", "B", "4", NONE, TRUE, TRUE, FALSE, FALSE),
    CartRow("N", "B", "X", NONE, TRUE, TRUE, FALSE, FALSE),
    CartRow("N", "B", "Q", NONE, TRUE, TRUE, FALSE, FALSE),
    CartRow("N", "Z", "O", NONE, TRUE, TRUE, FALSE, FALSE),
    CartRow("N", "N", "S", NONE, TRUE, TRUE, FALSE, FALSE),
    CartRow("N", "B", "8", NONE, TRUE, TRUE, FALSE, FALSE),
    CartRow("N", "B", "F", NONE, TRUE, TRUE, FALSE, FALSE),
    CartRow("N", "B", "P", NONE, TRUE, TRUE, FALSE, FALSE),
    CartRow("N", "B", "O", NONE, TRUE, FALSE, FALSE, FALSE),
    CartRow("N", "O", "W", NONE, TRUE, FALSE, FALSE, FALSE),
    CartRow("N", "B", "L", NONE, TRUE, TRUE, FALSE, FALSE),
    CartRow("N", "B", "Y", NONE, TRUE, TRUE, FALSE, FALSE),
    CartRow("N", "B", "3", NONE, TRUE, TRUE, FALSE, FALSE),
    CartRow("N", "B", "U", NONE, TRUE, FALSE, FALSE, FALSE),
    CartRow("N", "C", "L", NONE, TRUE, TRUE, FALSE, FALSE),
    CartRow("N", "C", "D", NONE, TRUE, TRUE, FALSE, FALSE),
    CartRow("N", "T", "S", NONE, TRUE, FALSE, FALSE, FALSE),
    CartRow("N", "V", "2", NONE, TRUE, TRUE, FALSE, FALSE),
    CartRow("N", "P", "K", NONE, TRUE, FALSE, FALSE, FALSE),
    CartRow("N", "T", "4", NONE, TRUE, TRUE, FALSE, FALSE),
    CartRow("N", "D", "W", NONE, TRUE, TRUE, FALSE, FALSE),
    CartRow("N", "G", "A", NONE, TRUE, TRUE, FALSE, FALSE),
    CartRow("N", "D", "E", NONE, TRUE, TRUE, FALSE, FALSE),
    CartRow("N", "T", "A", NONE, TRUE, TRUE, FALSE, FALSE),
    CartRow("N", "D", "M", NONE, TRUE, FALSE, FALSE, FALSE),
    CartRow("N", "D", "H", NONE, TRUE, FALSE, FALSE, FALSE),
    CartRow("N", "D", "N", NONE, TRUE, TRUE, FALSE, FALSE),
    CartRow("N", "D", "Z", NONE, TRUE, TRUE, FALSE, FALSE),
    CartRow("N", "W", "I", NONE, TRUE, TRUE, FALSE, FALSE),
    CartRow("N", "S", "T", NONE, TRUE, FALSE, FALSE, FALSE),
    CartRow("N", "E", "T", NONE, TRUE, FALSE, FALSE, FALSE),
    CartRow("N", "E", "G", NONE, TRUE, TRUE, FALSE, FALSE),
    CartRow("N", "G", "2", NONE, TRUE, TRUE, FALSE, FALSE),
    CartRow("N", "H", "G", NONE, TRUE, FALSE, FALSE, FALSE),
    CartRow("N", "F", "R", NONE, TRUE, TRUE, FALSE, FALSE),
    CartRow("N", "8", "I", NONE, TRUE, FALSE, FALSE, FALSE),
    CartRow("N", "9", "F", NONE, TRUE, FALSE, FALSE, FALSE),
    CartRow("N", "7", "I", NONE, TRUE, FALSE, FALSE, FALSE),
    CartRow("N", "F", "S", NONE, TRUE, FALSE, FALSE, FALSE),
    CartRow("N", "F", "F", NONE, TRUE, TRUE, FALSE, FALSE),
    CartRow("N", "F", "D", NONE, TRUE, TRUE, FALSE, FALSE),
    CartRow("N", "F", "O", NONE, TRUE, TRUE, FALSE, FALSE),
    CartRow("N", "F", "9", NONE, TRUE, FALSE, FALSE, FALSE),
    CartRow("N", "G", "5", NONE, TRUE, TRUE, FALSE, FALSE),
    CartRow("N", "G", "X", NONE, TRUE, TRUE, FALSE, FALSE),
    CartRow("N", "G", "D", NONE, TRUE, TRUE, FALSE, FALSE),
    CartRow("N", "X", "3", NONE, TRUE, TRUE, FALSE, FALSE),
    CartRow("N", "X", "2", NONE, TRUE, FALSE, FALSE, FALSE),
    CartRow("N", "G", "M", NONE, TRUE, TRUE, FALSE, FALSE),
    CartRow("N", "G", "N", NONE, TRUE, FALSE, FALSE, FALSE),
    CartRow("N", "H", "S", NONE, TRUE, FALSE, FALSE, FALSE),
    CartRow("N", "M", "9", NONE, TRUE, FALSE, FALSE, FALSE),
    CartRow("N", "H", "C", NONE, TRUE, TRUE, FALSE, FALSE),
    CartRow("N", "H", "X", NONE, TRUE, FALSE, FALSE, FALSE),
    CartRow("N", "H", "K", NONE, TRUE, TRUE, FALSE, FALSE),
    CartRow("N", "H", "W", NONE, TRUE, TRUE, FALSE, FALSE),
    CartRow("N", "H", "V", NONE, TRUE, TRUE, FALSE, FALSE),
    CartRow("N", "H", "T", NONE, TRUE, TRUE, FALSE, FALSE),
    CartRow("N", "W", "B", NONE, TRUE, TRUE, FALSE, FALSE),
    CartRow("N", "W", "S", NONE, TRUE, FALSE, FALSE, FALSE),
    CartRow("N", "I", "S", NONE, TRUE, TRUE, FALSE, FALSE),
    CartRow("N", "J", "P", NONE, TRUE, FALSE, FALSE, FALSE),
    CartRow("N", "D", "S", NONE, TRUE, FALSE, FALSE, FALSE),
    CartRow("N", "J", "E", NONE, TRUE, FALSE, FALSE, FALSE),
    CartRow("N", "J", "L", NONE, TRUE, FALSE, FALSE, FALSE),
    CartRow("N", "M", "A", NONE, TRUE, FALSE, FALSE, FALSE),
    CartRow("N", "C", "O", NONE, TRUE, TRUE, FALSE, FALSE),
    CartRow("N", "G", "S", NONE, TRUE, FALSE, FALSE, FALSE),
    CartRow("N", "J", "3", NONE, TRUE, FALSE, FALSE, FALSE),
    CartRow("N", "6", "4", NONE, TRUE, TRUE, FALSE, FALSE),
    CartRow("N", "K", "K", NONE, TRUE, TRUE, FALSE, FALSE),
    CartRow("N", "L", "G", NONE, TRUE, TRUE, FALSE, FALSE),
    CartRow("N", "8", "M", NONE, TRUE, TRUE, FALSE, FALSE),
    CartRow("N", "M", "D", NONE, TRUE, TRUE, FALSE, FALSE),
    CartRow("N", "F", "L", NONE, TRUE, TRUE, FALSE, FALSE),
    CartRow("N", "2", "M", NONE, TRUE, TRUE, FALSE, FALSE),
    CartRow("N", "9", "M", NONE, TRUE, TRUE, FALSE, FALSE),
    CartRow("N", "M", "J", NONE, TRUE, FALSE, FALSE, FALSE),
    CartRow("N", "M", "M", NONE, TRUE, FALSE, FALSE, FALSE),
    CartRow("N", "H", "M", NONE, TRUE, TRUE, FALSE, FALSE),
    CartRow("N", "W", "K", NONE, TRUE, TRUE, FALSE, FALSE),
    CartRow("N", "V", "3", NONE, TRUE, TRUE, FALSE, FALSE),
    CartRow("N", "A", "I", NONE, TRUE, FALSE, FALSE, FALSE),
    CartRow("N", "M", "B", NONE, TRUE, TRUE, FALSE, FALSE),
    CartRow("N", "B", "R", NONE, TRUE, TRUE, FALSE, FALSE),
    CartRow("N", "M", "4", NONE, TRUE, TRUE, FALSE, FALSE),
    CartRow("N", "M", "Y", NONE, TRUE, TRUE, FALSE, FALSE),
    CartRow("N", "P", "9", NONE, TRUE, TRUE, FALSE, FALSE),
    CartRow("N", "H", "5", NONE, TRUE, FALSE, FALSE, FALSE),
    CartRow("N", "N", "M", NONE, TRUE, FALSE, FALSE, FALSE),
    CartRow("N", "9", "C", NONE, TRUE, TRUE, FALSE, FALSE),
    CartRow("N", "N", "2", NONE, TRUE, TRUE, FALSE, FALSE),
    CartRow("N", "X", "G", NONE, TRUE, FALSE, FALSE, FALSE),
    CartRow("N", "B", "A", NONE, TRUE, TRUE, FALSE, FALSE),
    CartRow("N", "B", "2", NONE, TRUE, TRUE, FALSE, FALSE),
    CartRow("N", "W", "Z", NONE, TRUE, TRUE, FALSE, FALSE),
    CartRow("N", "B", "9", NONE, TRUE, FALSE, FALSE, FALSE),
    CartRow("N", "J", "A", NONE, TRUE, TRUE, FALSE, FALSE),
    CartRow("N", "9", "B", NONE, TRUE, TRUE, FALSE, FALSE),
    CartRow("N", "N", "L", NONE, TRUE, TRUE, FALSE, FALSE),
    CartRow("N", "S", "O", NONE, TRUE, FALSE, FALSE, FALSE),
    CartRow("N", "B", "Z", NONE, TRUE, TRUE, FALSE, FALSE),
    CartRow("N", "S", "Z", NONE, TRUE, TRUE, FALSE, FALSE),
    CartRow("N", "B", "I", NONE, TRUE, TRUE, FALSE, FALSE),
    CartRow("N", "F", "B", NONE, TRUE, TRUE, FALSE, FALSE),
    CartRow("N", "Q", "8", NONE, TRUE, TRUE, FALSE, FALSE),
    CartRow("N", "Q", "9", NONE, TRUE, TRUE, FALSE, FALSE),
    CartRow("N", "Q", "B", NONE, TRUE, TRUE, FALSE, FALSE),
    CartRow("N", "Q", "C", NONE, TRUE, TRUE, FALSE, FALSE),
    CartRow("N", "9", "H", NONE, TRUE, TRUE, FALSE, FALSE),
    CartRow("N", "H", "O", NONE, TRUE, TRUE, FALSE, FALSE),
    CartRow("N", "H", "L", NONE, TRUE, TRUE, FALSE, FALSE),
    CartRow("N", "H", "9", NONE, TRUE, TRUE, FALSE, FALSE),
    CartRow("N", "N", "C", NONE, TRUE, TRUE, FALSE, FALSE),
    CartRow("N", "C", "E", NONE, TRUE, TRUE, FALSE, FALSE),
    CartRow("N", "O", "F", NONE, TRUE, TRUE, FALSE, FALSE),
    CartRow("N", "H", "N", NONE, TRUE, FALSE, FALSE, FALSE),
    CartRow("N", "O", "M", NONE, TRUE, FALSE, FALSE, FALSE),
    CartRow("N", "P", "C", NONE, TRUE, FALSE, FALSE, FALSE),
    CartRow("N", "Y", "P", NONE, TRUE, TRUE, FALSE, FALSE),
    CartRow("N", "P", "X", NONE, TRUE, TRUE, FALSE, FALSE),
    CartRow("N", "P", "L", NONE, TRUE, FALSE, FALSE, FALSE),
    CartRow("N", "P", "U", NONE, TRUE, FALSE, FALSE, FALSE),
    CartRow("N", "K", "M", NONE, TRUE, FALSE, FALSE, FALSE),
    CartRow("N", "N", "R", NONE, TRUE, FALSE, FALSE, FALSE),
    CartRow("N", "P", "B", NONE, TRUE, TRUE, FALSE, FALSE),
    CartRow("N", "Q", "K", NONE, TRUE, TRUE, FALSE, FALSE),
    CartRow("N", "Q", "2", NONE, TRUE, TRUE, FALSE, FALSE),
    CartRow("N", "K", "R", NONE, TRUE, FALSE, FALSE, FALSE),
    CartRow("N", "R", "P", NONE, TRUE, TRUE, FALSE, FALSE),
    CartRow("N", "R", "T", NONE, TRUE, FALSE, FALSE, FALSE),
    CartRow("N", "R", "X", NONE, TRUE, FALSE, FALSE, FALSE),
    CartRow("N", "Y", "2", NONE, TRUE, FALSE, FALSE, FALSE),
    CartRow("N", "F", "Q", NONE, TRUE, TRUE, FALSE, FALSE),
    CartRow("N", "R", "V", NONE, TRUE, TRUE, FALSE, FALSE),
    CartRow("N", "R", "D", NONE, TRUE, TRUE, FALSE, FALSE),
    CartRow("N", "2", "2", NONE, TRUE, TRUE, FALSE, FALSE),
    CartRow("N", "R", "O", NONE, TRUE, TRUE, FALSE, FALSE),
    CartRow("N", "R", "R", NONE, TRUE, TRUE, FALSE, FALSE),
    CartRow("N", "R", "K", NONE, TRUE, FALSE, FALSE, FALSE),
    CartRow("N", "R", "2", NONE, TRUE, TRUE, FALSE, FALSE),
    CartRow("N", "C", "S", NONE, TRUE, TRUE, FALSE, FALSE),
    CartRow("N", "D", "C", NONE, TRUE, TRUE, FALSE, FALSE),
    CartRow("N", "S", "H", NONE, TRUE, FALSE, FALSE, FALSE),
    CartRow("N", "S", "F", NONE, TRUE, TRUE, FALSE, FALSE),
    CartRow("N", "R", "U", NONE, TRUE, TRUE, FALSE, FALSE),
    CartRow("N", "S", "Y", NONE, TRUE, FALSE, FALSE, FALSE),
    CartRow("N", "S", "D", NONE, TRUE, TRUE, FALSE, FALSE),
    CartRow("N", "S", "G", NONE, TRUE, FALSE, FALSE, FALSE),
    CartRow("N", "T", "O", NONE, TRUE, FALSE, FALSE, FALSE),
    CartRow("N", "S", "2", NONE, TRUE, FALSE, FALSE, FALSE),
    CartRow("N", "S", "K", NONE, TRUE, TRUE, FALSE, FALSE),
    CartRow("N", "D", "T", NONE, TRUE, TRUE, FALSE, FALSE),
    CartRow("N", "P", "R", NONE, TRUE, TRUE, FALSE, FALSE),
    CartRow("N", "I", "V", NONE, TRUE, TRUE, FALSE, FALSE),
    CartRow("N", "S", "L", NONE, TRUE, TRUE, FALSE, FALSE),
    CartRow("N", "R", "3", NONE, TRUE, TRUE, FALSE, FALSE),
    CartRow("N", "B", "W", NONE, TRUE, TRUE, FALSE, FALSE),
    CartRow("N", "S", "X", NONE, TRUE, TRUE, FALSE, FALSE),
    CartRow("N", "S", "P", NONE, TRUE, TRUE, FALSE, FALSE),
    CartRow("N", "P", "Z", NONE, TRUE, TRUE, FALSE, FALSE),
    CartRow("N", "L", "2", NONE, TRUE, TRUE, FALSE, FALSE),
    CartRow("N", "R", "6", NONE, TRUE, TRUE, FALSE, FALSE),
    CartRow("N", "T", "T", NONE, TRUE, FALSE, FALSE, FALSE),
    CartRow("N", "T", "F", NONE, TRUE, TRUE, FALSE, FALSE),
    CartRow("N", "T", "Q", NONE, TRUE, TRUE, FALSE, FALSE),
    CartRow("N", "3", "T", NONE, TRUE, TRUE, FALSE, FALSE),
    CartRow("N", "G", "B", NONE, TRUE, TRUE, FALSE, FALSE),
    CartRow("N", "G", "R", NONE, TRUE, TRUE, FALSE, FALSE),
    CartRow("N", "T", "H", NONE, TRUE, TRUE, FALSE, FALSE),
    CartRow("N", "3", "P", NONE, TRUE, TRUE, FALSE, FALSE),
    CartRow("N", "T", "U", NONE, TRUE, FALSE, FALSE, FALSE),
    CartRow("N", "R", "W", NONE, TRUE, TRUE, FALSE, FALSE),
    CartRow("N", "T", "2", NONE, TRUE, TRUE, FALSE, FALSE),
    CartRow("N", "T", "K", NONE, TRUE, TRUE, FALSE, FALSE),
    CartRow("N", "S", "B", NONE, TRUE, TRUE, FALSE, FALSE),
    CartRow("N", "V", "8", NONE, TRUE, TRUE, FALSE, FALSE),
    CartRow("N", "V", "G", NONE, TRUE, TRUE, FALSE, FALSE),
    CartRow("N", "V", "C", NONE, TRUE, FALSE, FALSE, FALSE),
    CartRow("N", "V", "R", NONE, TRUE, FALSE, FALSE, FALSE),
    CartRow("N", "W", "V", NONE, TRUE, TRUE, FALSE, FALSE),
    CartRow("N", "W", "M", NONE, TRUE, TRUE, FALSE, FALSE),
    CartRow("N", "W", "3", NONE, TRUE, TRUE, FALSE, FALSE),
    CartRow("N", "W", "N", NONE, TRUE, TRUE, FALSE, FALSE),
    CartRow("N", "W", "W", NONE, TRUE, TRUE, FALSE, FALSE),
    CartRow("N", "T", "I", NONE, TRUE, TRUE, FALSE, FALSE),
    CartRow("N", "W", "G", NONE, TRUE, FALSE, FALSE, FALSE),
    CartRow("N", "W", "8", NONE, TRUE, FALSE, FALSE, FALSE),
    CartRow("N", "W", "D", NONE, TRUE, TRUE, FALSE, FALSE),
    CartRow("N", "W", "P", NONE, TRUE, TRUE, FALSE, FALSE),
    CartRow("N", "J", "2", NONE, TRUE, FALSE, FALSE, FALSE),
    CartRow("N", "8", "W", NONE, TRUE, FALSE, FALSE, FALSE),
    CartRow("N", "W", "O", NONE, TRUE, TRUE, FALSE, FALSE),
    CartRow("N", "X", "F", NONE, TRUE, TRUE, FALSE, FALSE),
    CartRow("N", "J", "Q", NONE, FALSE, TRUE, FALSE, FALSE),
    CartRow("N", "C", "B", NONE, FALSE, TRUE, FALSE, FALSE),
    CartRow("N", "D", "F", NONE, FALSE, TRUE, FALSE, FALSE),
    CartRow("N", "K", "E", NONE, FALSE, TRUE, FALSE, FALSE),
    CartRow("N", "M", "T", NONE, FALSE, TRUE, FALSE, FALSE),
    CartRow("N", "M", "3", NONE, FALSE, TRUE, FALSE, FALSE),
    CartRow("N", "R", "G", NONE, FALSE, TRUE, FALSE, FALSE),
    CartRow("N", "O", "H", NONE, FALSE, TRUE, TRUE, FALSE),
    CartRow("N", "W", "F", NONE, FALSE, TRUE, FALSE, FALSE)
>>

\* The region codes that select PAL.
\* Variant: region code 'E' counts as a PAL region too.
PalRegionsWithE ==
    {Ord("D"), Ord("E"), Ord("F"), Ord("H"), Ord("I"), Ord("L"), Ord("P"), Ord("S"),
     Ord("U"), Ord("W"), Ord("X"), Ord("Y")}

PalRegions ==
    {Ord("D"), Ord("F"), Ord("H"), Ord("I"), Ord("L"), Ord("P"), Ord("S"),
     Ord("U"), Ord("W"), Ord("X"), Ord("Y")}

\* switch (crc): <<known, cic, system_type>> for the system type sys the
\* region code gave.
CicOfCrc(crc, sys) ==
    CASE crc \in {U64(0, \Ha3, \H16ad, \Hc55a), U64(0, \H03, \H9c98, \H1107),
                  U64(0, \Ha3, \H0dac, \Hd530), U64(0, \Hd2, \H8282, \H81b0),
                  U64(0, \H9a, \Hcc31, \He644)} ->
              <<TRUE, IF sys = NTSC THEN CIC_NUS_6102 ELSE CIC_NUS_7101, sys>>
      [] crc = U64(0, \Ha4, \H0539, \H7b05) -> <<TRUE, CIC_NUS_7102, PAL>>
      [] crc = U64(0, \Ha0, \Hf26f, \H62fe) -> <<TRUE, CIC_NUS_6101, NTSC>>
      [] crc = U64(0, \Ha9, \H229d, \H7c45) ->
              <<TRUE, IF sys = NTSC THEN CIC_NUS_6103 ELSE CIC_NUS_7103, sys>>
      [] crc = U64(0, \Hf8, \Hb860, \Hed00) ->
              <<TRUE, IF sys = NTSC THEN CIC_NUS_6105 ELSE CIC_NUS_7105, sys>>
      [] crc = U64(0, \Hba, \H5ba4, \Hb8cd) ->
              <<TRUE, IF sys = NTSC THEN CIC_NUS_6106 ELSE CIC_NUS_7106, sys>>
      [] crc = U64(0, \H012d, \Haafc, \H8aab) -> <<TRUE, CIC_NUS_5167, sys>>
      [] crc = U64(0, \Ha9, \Hdf4b, \H39e1) -> <<TRUE, CIC_NUS_8303, sys>>
      [] crc = U64(0, \Haa, \H764e, \H39e1) -> <<TRUE, CIC_NUS_8401, sys>>
      [] crc = U64(0, \Hab, \Hb0b7, \H39e1) -> <<TRUE, CIC_NUS_DDUS, sys>>
      [] OTHER -> <<FALSE, CIC_NUS_6101, sys>>

\* The locals save_type, cpak, rpak, tpak, rtc before switch (fnv_hash(id)).
NoCart == [known |-> FALSE, save_type |-> NONE, cpak |-> FALSE, rpak |-> FALSE,
           tpak |-> FALSE, rtc |-> FALSE]

Cart(save, cp, rp, tp, rt) ==
    [known |-> TRUE, save_type |-> save, cpak |-> cp, rpak |-> rp, tpak |-> tp,
     rtc |-> rt]

\* switch (fnv_hash(id)): the cases that look at region_code and revision
\* (n64.cpp:722-795), then the one-line cases, then default.  The switch is
\* a dispatch on the string id.
CartOfId(id, region_code, revision) ==
    LET J == region_code = Ord("J")
    IN  CASE id = Id3("N", "3", "H") ->
                IF J THEN Cart(SRAM_32k, FALSE, FALSE, FALSE, FALSE)
                ELSE Cart(NONE, TRUE, TRUE, FALSE, FALSE)
          [] id = Id3("N", "D", "3") ->
                IF J THEN Cart(EEPROM_2k, FALSE, TRUE, FALSE, FALSE)
                ELSE Cart(NONE, TRUE, FALSE, FALSE, FALSE)
          [] id = Id3("N", "D", "4") ->
                IF J THEN Cart(NONE, FALSE, TRUE, FALSE, FALSE)
                ELSE Cart(NONE, TRUE, FALSE, FALSE, FALSE)
          [] id = Id3("N", "S", "M") ->
                Cart(EEPROM_512, FALSE, J /\ revision = 3, FALSE, FALSE)
          [] id = Id3("N", "W", "R") ->
                Cart(EEPROM_512, TRUE, J /\ revision = 2, FALSE, FALSE)
          [] id = Id3("N", "K", "4") ->
                Cart(IF J /\ revision < 2 THEN SRAM_32k ELSE EEPROM_2k,
                     FALSE, TRUE, FALSE, FALSE)
          [] id = Id3("N", "D", "K") ->
                Cart(IF J THEN EEPROM_512 ELSE NONE, FALSE, FALSE, FALSE, FALSE)
          [] id = Id3("N", "W", "T") ->
                IF J THEN Cart(EEPROM_512, FALSE, FALSE, FALSE, FALSE)
                ELSE Cart(NONE, TRUE, FALSE, FALSE, FALSE)
          [] OTHER ->
                With(LAMBDA rows :
                         IF rows = {} THEN NoCart
                         ELSE With(LAMBDA r : Cart(r.save_type, r.cpak, r.rpak, r.tpak, r.rtc),
                                   CHOOSE r \in rows : TRUE),
                     With(LAMBDA t : {r \in {t[i] : i \in 1..Len(t)} : r.id = id}, CartTable))

\* n64.cpp:314-315.
CicWrites(c) == << <<F_SYSTEM, c[3]>>, <<F_CIC, c[2]>> >>

\* n64.cpp:801-805.
CartWrites(cart) ==
    << <<F_CPAK, B2N(cart.cpak)>>, <<F_RPAK, B2N(cart.rpak)>>,
       <<F_TPAK, B2N(cart.tpak)>>, <<F_RTC, B2N(cart.rtc)>>,
       <<F_SAVE, cart.save_type>> >>

\* detect_rom_settings_from_first_chunk(id, region_code, revision, crc),
\* user_io_status_get("[64]") being auto_detect: the value returned and the
\* configuration writes made.
detect_rom_settings_from_first_chunk(id, region_code, revision, crc, auto_detect) ==
    IF auto_detect # ON THEN [ret |-> 0, writes |-> <<>>]
    ELSE With(LAMBDA c :
                  IF ~c[1] THEN [ret |-> 1, writes |-> <<>>]
                  ELSE With(LAMBDA cart :
                                IF ~cart.known
                                THEN [ret |-> 2, writes |-> CicWrites(c)]
                                ELSE [ret |-> 0, writes |-> CicWrites(c) \o CartWrites(cart)],
                            CartOfId(id, region_code, revision)),
              CicOfCrc(crc, IF region_code \in PalRegions THEN PAL ELSE NTSC))

(***************************************************************************)
(* Source files.  A file is described by a record: whether it exists, the  *)
(* byte order it is stored in (enc; UNKNOWN: a file with no magic), cart   *)
(* or disk magic, its size, and the header evidence its big-endian form    *)
(* holds.  FileBytes gives its bytes.                                      *)
(***************************************************************************)
\* Bounds of the model: full chunks in a source, and bytes after one chunk.
MaxChunks == 2
MaxTail == 4

\* Header offsets read by n64_rom_tx.
OFF_CART_ID == 59
OFF_REGION == 62
OFF_REVISION == 63
OFF_IPL3 == 64

\* The first four bytes of a big-endian image.
MagicOf(r) ==
    IF r.enc = UNKNOWN THEN <<\H12, \H34, \H56, \H78>>
    ELSE IF r.disk THEN <<\H80, \H27, \H07, \H40>>
    ELSE <<\H80, \H37, \H12, \H40>>

\* Byte k of host-order word j of the boot-code window, chosen so that the
\* words add up to crc: crc \div 2^32 words of 0xffffffff, one word that
\* makes up the rest, then zeros.
WindowByte(crc, j, k) ==
    LET hi == crc[1] * 65536 + crc[2]
        lo16 == (crc[4] + hi) % 65536
        hi16 == crc[3] + ((crc[4] + hi) \div 65536)
    IN  IF j < hi THEN 255
        ELSE IF j > hi THEN 0
        ELSE CASE k = 0 -> lo16 % 256
               [] k = 1 -> lo16 \div 256
               [] k = 2 -> hi16 % 256
               [] OTHER -> hi16 \div 256

\* The byte at offset o of the image in big-endian (canonical) order.
CanonByte(r, o) ==
    IF o < 4 THEN MagicOf(r)[o + 1]
    ELSE IF o >= OFF_CART_ID /\ o < OFF_REGION THEN r.id[o - OFF_CART_ID + 1]
    ELSE IF o = OFF_REGION THEN r.region
    ELSE IF o = OFF_REVISION THEN r.revision
    ELSE IF o >= OFF_IPL3 /\ o < BUF_SIZE
         THEN WindowByte(r.crc, (o - OFF_IPL3) \div 4, o % 4)
    ELSE (o * 7 + 3) % 256

\* The byte at offset o of the file as stored: the canonical image with
\* every complete group of its byte order reversed.
RawByte(r, o) ==
    LET g == GroupLen(r.enc)
        q == (o \div g) * g + (g - 1 - (o % g))
    IN  IF (o \div g) * g + g <= r.size THEN CanonByte(r, q) ELSE CanonByte(r, o)

FileBytes(r) == [p \in 1..r.size |-> RawByte(r, p - 1)]

(***************************************************************************)
(* State of one call n64_rom_tx(name, index).                              *)
(***************************************************************************)
VARIABLES
    name,             \* the source file (its description)
    dbs,              \* the database files, in the order of DB_FILE_NAMES
    status,           \* the configuration store: field -> value
    pc,               \* position in n64_rom_tx
    f,                \* the file handle: [open, pos]
    buf,              \* static uint8_t buf[4096]
    bytes2send, chunk, is_first_chunk, rom_found_in_db, detection_error,
    rom_format, ctx, md5_hex, ipl3_crc, cart_id, region_code, revision,
    header_hex,       \* the header digest printed at n64.cpp:892
    sink,             \* the bytes handed to user_io_file_tx_data, in order
    trace,            \* the calls made so far, in order
    ret,              \* the value returned (-1: not returned yet)
    nd,               \* a direct use of normalizeData (NormSpec below)
    db,               \* a direct use of detect_rom_settings_in_dbs (DbSpec)
    hs,               \* direct uses of detect_rom_settings_from_first_chunk (HeurSpec)
    fd                \* a direct use of detectRomFormat (FormatSpec)

locals == <<bytes2send, chunk, is_first_chunk, rom_found_in_db, detection_error,
            rom_format, ctx, md5_hex, ipl3_crc, cart_id, region_code, revision,
            header_hex>>
env == <<name, dbs, nd, db, hs, fd>>
vars == <<name, dbs, nd, db, hs, fd, status, pc, f, buf, locals, sink, trace, ret>>

\* A call, as recorded in trace.
Ev(op, arg, val) == [op |-> op, arg |-> arg, val |-> val]

\* The user_io_status_set calls for a sequence of <<field, value>> writes.
SetEvents(writes) ==
    [i \in 1..Len(writes) |-> Ev("user_io_status_set", writes[i][1], writes[i][2])]

RECURSIVE ApplyWrites(_, _, _)
ApplyWrites(st, writes, i) ==
    IF i > Len(writes) THEN st
    ELSE ApplyWrites([st EXCEPT ![writes[i][1]] = writes[i][2]], writes, i + 1)

\* for (i = 0x40 / 4; i < 0x1000 / 4; i++) ipl3_crc += ((uint32_t*)buf)[i],
\* for the words lo..hi (split in halves only to keep the evaluation
\* shallow: the words are added in index order).
RECURSIVE SumWords(_, _, _, _)
SumWords(acc, data, lo, hi) ==
    IF lo > hi THEN acc
    ELSE IF lo = hi THEN Add64(acc, LoadU32(data, 4 * lo))
    ELSE With(LAMBDA left : SumWords(left, data, ((lo + hi) \div 2) + 1, hi),
              SumWords(acc, data, lo, (lo + hi) \div 2))

Ipl3Crc(acc, data) == SumWords(acc, data, OFF_IPL3 \div 4, (BUF_SIZE \div 4) - 1)

\* strncpy(cart_id, buf + 0x3b, 3); cart_id[3] = '\0'.
CartIdOf(data) == CString(SubSeq(data, OFF_CART_ID + 1, OFF_CART_ID + 3))

\* n64.cpp:888-891: the context is copied, the copy is finalised; the live
\* context is the second component.
\* Variant: the header digest is finalised on the live context.
HeaderSnapshotLive(c) == <<md5_to_hex(MD5Digest(c)), MD5Wiped>>

HeaderSnapshot(c) == <<md5_to_hex(MD5Digest(c)), c>>

\* n64.cpp:913-914: the live context is finalised.
FileSnapshot(c) == <<md5_to_hex(MD5Digest(c)), MD5Wiped>>

(***************************************************************************)
(* The steps of n64_rom_tx.                                                *)
(***************************************************************************)
\* n64.cpp:826: FileOpen fails.
OpenFail ==
    /\ pc = "start" /\ ~name.exists
    /\ ret' = 0 /\ pc' = "done"
    /\ UNCHANGED <<env, status, f, buf, locals, sink, trace>>

\* n64.cpp:826-857: the file opens; index, start of transfer, progress,
\* save-state processing; the locals are initialised.
Open ==
    /\ pc = "start" /\ name.exists
    /\ f' = [open |-> TRUE, pos |-> 0]
    /\ bytes2send' = name.size
    /\ trace' = trace \o << Ev("user_io_set_index", "", 0),
                            Ev("user_io_set_download", "", 1),
                            Ev("ProgressMessage", "clear", 0),
                            Ev("process_ss", "", 0) >>
    /\ is_first_chunk' = TRUE /\ rom_found_in_db' = FALSE
    /\ detection_error' = 0 /\ rom_format' = UNKNOWN
    /\ ctx' = MD5Init /\ ipl3_crc' = U64(0, 0, 0, 0)
    /\ region_code' = 0 /\ revision' = 0
    /\ pc' = "loop"
    /\ UNCHANGED <<env, status, buf, chunk, md5_hex, cart_id, header_hex, sink, ret>>

\* n64.cpp:859-863: the next chunk is read into buf.
Read ==
    /\ pc = "loop" /\ bytes2send > 0
    /\ \E n \in {Min(bytes2send, BUF_SIZE)}, data \in {FileBytes(name)} :
           /\ chunk' = n
           /\ buf' = [p \in 1..BUF_SIZE |-> IF p <= n THEN data[f.pos + p] ELSE buf[p]]
           /\ f' = [f EXCEPT !.pos = @ + n]
           /\ trace' = trace \o <<Ev("FileReadAdv", "", n)>>
    /\ pc' = IF is_first_chunk THEN "check" ELSE "normalize"
    /\ UNCHANGED <<env, status, bytes2send, is_first_chunk, rom_found_in_db,
                   detection_error, rom_format, ctx, md5_hex, ipl3_crc, cart_id,
                   region_code, revision, header_hex, sink, ret>>

\* n64.cpp:866-872: the first chunk is shorter than 4096 bytes.
TooShort ==
    /\ pc = "check" /\ chunk < BUF_SIZE
    /\ ret' = 0 /\ pc' = "done"
    /\ UNCHANGED <<env, status, f, buf, locals, sink, trace>>

\* Variant: a first chunk with no known magic is rejected.
DetectFormatStrict ==
    /\ pc = "check" /\ chunk >= BUF_SIZE
    /\ rom_format' = detectRomFormat(buf)
    /\ trace' = trace \o <<Ev("detectRomFormat", "", 0)>>
    /\ IF detectRomFormat(buf) = UNKNOWN
       THEN ret' = 0 /\ pc' = "done"
       ELSE ret' = ret /\ pc' = "normalize"
    /\ UNCHANGED <<env, status, f, buf, bytes2send, chunk, is_first_chunk,
                   rom_found_in_db, detection_error, ctx, md5_hex, ipl3_crc,
                   cart_id, region_code, revision, header_hex, sink>>

\* Variant: the first chunk is used whatever its length.
DetectFormatAnyLength ==
    /\ pc = "check"
    /\ rom_format' = detectRomFormat(buf)
    /\ trace' = trace \o <<Ev("detectRomFormat", "", 0)>>
    /\ pc' = "normalize"
    /\ UNCHANGED <<env, status, f, buf, bytes2send, chunk, is_first_chunk,
                   rom_found_in_db, detection_error, ctx, md5_hex, ipl3_crc,
                   cart_id, region_code, revision, header_hex, sink, ret>>

\* n64.cpp:873.
DetectFormat ==
    /\ pc = "check" /\ chunk >= BUF_SIZE
    /\ rom_format' = detectRomFormat(buf)
    /\ trace' = trace \o <<Ev("detectRomFormat", "", 0)>>
    /\ pc' = "normalize"
    /\ UNCHANGED <<env, status, f, buf, bytes2send, chunk, is_first_chunk,
                   rom_found_in_db, detection_error, ctx, md5_hex, ipl3_crc,
                   cart_id, region_code, revision, header_hex, sink, ret>>

\* n64.cpp:877.
Normalize ==
    /\ pc = "normalize"
    /\ buf' = normalizeData(buf, chunk, rom_format)
    /\ trace' = trace \o <<Ev("normalizeData", "", chunk)>>
    /\ pc' = "hash"
    /\ UNCHANGED <<env, status, f, locals, sink, ret>>

\* n64.cpp:879.
Hash ==
    /\ pc = "hash"
    /\ ctx' = MD5Update(ctx, buf, chunk)
    /\ trace' = trace \o <<Ev("MD5Update", "", chunk)>>
    /\ pc' = IF is_first_chunk THEN "header" ELSE "forward"
    /\ UNCHANGED <<env, status, f, buf, bytes2send, chunk, is_first_chunk,
                   rom_found_in_db, detection_error, rom_format, md5_hex, ipl3_crc,
                   cart_id, region_code, revision, header_hex, sink, ret>>

\* Variant: the header evidence is taken whatever the lookup reports.
HeaderLookupEvidenceAlways ==
    /\ pc = "header"
    /\ \E snap \in {HeaderSnapshot(ctx)} :
         \E r \in {detect_rom_settings_in_dbs(snap[1], dbs, status[F_AUTO])} :
           /\ md5_hex' = snap[1] /\ header_hex' = snap[1] /\ ctx' = snap[2]
           /\ rom_found_in_db' = r.found
           /\ status' = ApplyWrites(status, r.writes, 1)
           /\ trace' = trace \o <<Ev("MD5Final", "header", 0),
                                  Ev("detect_rom_settings_in_dbs", "header", B2N(r.found))>>
                             \o SetEvents(r.writes)
                             \o <<Ev("evidence", "", 0)>>
           /\ ipl3_crc' = Ipl3Crc(ipl3_crc, buf)
           /\ cart_id' = CartIdOf(buf)
           /\ region_code' = buf[OFF_REGION + 1]
           /\ revision' = buf[OFF_REVISION + 1]
    /\ pc' = "forward"
    /\ UNCHANGED <<env, f, buf, bytes2send, chunk, is_first_chunk, detection_error,
                   rom_format, sink, ret>>

\* n64.cpp:881-904: the header digest, the lookup by header digest and, on
\* a miss, the header evidence.
HeaderLookup ==
    /\ pc = "header"
    /\ \E snap \in {HeaderSnapshot(ctx)} :
         \E r \in {detect_rom_settings_in_dbs(snap[1], dbs, status[F_AUTO])} :
           /\ md5_hex' = snap[1] /\ header_hex' = snap[1] /\ ctx' = snap[2]
           /\ rom_found_in_db' = r.found
           /\ status' = ApplyWrites(status, r.writes, 1)
           /\ trace' = trace \o <<Ev("MD5Final", "header", 0),
                                  Ev("detect_rom_settings_in_dbs", "header", B2N(r.found))>>
                             \o SetEvents(r.writes)
                             \o (IF r.found THEN <<>> ELSE <<Ev("evidence", "", 0)>>)
           /\ IF r.found
              THEN UNCHANGED <<ipl3_crc, cart_id, region_code, revision>>
              ELSE /\ ipl3_crc' = Ipl3Crc(ipl3_crc, buf)
                   /\ cart_id' = CartIdOf(buf)
                   /\ region_code' = buf[OFF_REGION + 1]
                   /\ revision' = buf[OFF_REVISION + 1]
    /\ pc' = "forward"
    /\ UNCHANGED <<env, f, buf, bytes2send, chunk, is_first_chunk, detection_error,
                   rom_format, sink, ret>>

\* Variant: the whole buffer is forwarded, not the bytes read.
ForwardWholeBuffer ==
    /\ pc = "forward"
    /\ sink' = sink \o buf
    /\ trace' = trace \o <<Ev("user_io_file_tx_data", "", chunk)>>
    /\ pc' = "progress"
    /\ UNCHANGED <<env, status, f, buf, locals, ret>>

\* n64.cpp:906.
Forward ==
    /\ pc = "forward"
    /\ sink' = sink \o SubSeq(buf, 1, chunk)
    /\ trace' = trace \o <<Ev("user_io_file_tx_data", "", chunk)>>
    /\ pc' = "progress"
    /\ UNCHANGED <<env, status, f, buf, locals, ret>>

\* Variant: is_first_chunk is not cleared at the end of a pass.
ProgressKeepFirst ==
    /\ pc = "progress"
    /\ trace' = trace \o <<Ev("ProgressMessage", "Loading", name.size - bytes2send)>>
    /\ bytes2send' = bytes2send - chunk
    /\ pc' = "loop"
    /\ UNCHANGED <<env, status, f, buf, chunk, is_first_chunk, rom_found_in_db,
                   detection_error, rom_format, ctx, md5_hex, ipl3_crc, cart_id,
                   region_code, revision, header_hex, sink, ret>>

\* n64.cpp:908-910.
Progress ==
    /\ pc = "progress"
    /\ trace' = trace \o <<Ev("ProgressMessage", "Loading", name.size - bytes2send)>>
    /\ bytes2send' = bytes2send - chunk
    /\ is_first_chunk' = FALSE
    /\ pc' = "loop"
    /\ UNCHANGED <<env, status, f, buf, chunk, rom_found_in_db, detection_error,
                   rom_format, ctx, md5_hex, ipl3_crc, cart_id, region_code,
                   revision, header_hex, sink, ret>>

\* Variant: the loop may be left after the first chunk.
FileDigestAfterFirstChunk ==
    /\ pc = "loop" /\ (bytes2send = 0 \/ ~is_first_chunk)
    /\ \E snap \in {FileSnapshot(ctx)} : md5_hex' = snap[1] /\ ctx' = snap[2]
    /\ trace' = trace \o <<Ev("MD5Final", "file", 0)>>
    /\ pc' = "filedb"
    /\ UNCHANGED <<env, status, f, buf, bytes2send, chunk, is_first_chunk,
                   rom_found_in_db, detection_error, rom_format, ipl3_crc, cart_id,
                   region_code, revision, header_hex, sink, ret>>

\* n64.cpp:913-915: the loop has ended; the file digest.
FileDigest ==
    /\ pc = "loop" /\ bytes2send = 0
    /\ \E snap \in {FileSnapshot(ctx)} : md5_hex' = snap[1] /\ ctx' = snap[2]
    /\ trace' = trace \o <<Ev("MD5Final", "file", 0)>>
    /\ pc' = "filedb"
    /\ UNCHANGED <<env, status, f, buf, bytes2send, chunk, is_first_chunk,
                   rom_found_in_db, detection_error, rom_format, ipl3_crc, cart_id,
                   region_code, revision, header_hex, sink, ret>>

\* Variant: the second lookup uses the header digest again.
FileLookupHeaderKey ==
    /\ pc = "filedb"
    /\ IF rom_found_in_db
       THEN UNCHANGED <<rom_found_in_db, status, trace>>
       ELSE \E r \in {detect_rom_settings_in_dbs(header_hex, dbs, status[F_AUTO])} :
                /\ rom_found_in_db' = r.found
                /\ status' = ApplyWrites(status, r.writes, 1)
                /\ trace' = trace \o <<Ev("detect_rom_settings_in_dbs", "file", B2N(r.found))>>
                                  \o SetEvents(r.writes)
    /\ pc' = "heuristic"
    /\ UNCHANGED <<env, f, buf, bytes2send, chunk, is_first_chunk, detection_error,
                   rom_format, ctx, md5_hex, ipl3_crc, cart_id, region_code,
                   revision, header_hex, sink, ret>>

\* Variant: the lookup by file digest is made whatever was found before.
FileLookupAlways ==
    /\ pc = "filedb"
    /\ \E r \in {detect_rom_settings_in_dbs(md5_hex, dbs, status[F_AUTO])} :
         /\ rom_found_in_db' = r.found
         /\ status' = ApplyWrites(status, r.writes, 1)
         /\ trace' = trace \o <<Ev("detect_rom_settings_in_dbs", "file", B2N(r.found))>>
                           \o SetEvents(r.writes)
    /\ pc' = "heuristic"
    /\ UNCHANGED <<env, f, buf, bytes2send, chunk, is_first_chunk, detection_error,
                   rom_format, ctx, md5_hex, ipl3_crc, cart_id, region_code,
                   revision, header_hex, sink, ret>>

\* n64.cpp:918-922: the lookup by file digest, if nothing was found yet.
FileLookup ==
    /\ pc = "filedb"
    /\ IF rom_found_in_db
       THEN UNCHANGED <<rom_found_in_db, status, trace>>
       ELSE \E r \in {detect_rom_settings_in_dbs(md5_hex, dbs, status[F_AUTO])} :
                /\ rom_found_in_db' = r.found
                /\ status' = ApplyWrites(status, r.writes, 1)
                /\ trace' = trace \o <<Ev("detect_rom_settings_in_dbs", "file", B2N(r.found))>>
                                  \o SetEvents(r.writes)
    /\ pc' = "heuristic"
    /\ UNCHANGED <<env, f, buf, bytes2send, chunk, is_first_chunk, detection_error,
                   rom_format, ctx, md5_hex, ipl3_crc, cart_id, region_code,
                   revision, header_hex, sink, ret>>

\* Variant: the heuristic resolver runs whatever was found before.
HeuristicAlways ==
    /\ pc = "heuristic"
    /\ \E r \in {detect_rom_settings_from_first_chunk(
                    cart_id, region_code, revision, ipl3_crc, status[F_AUTO])} :
         /\ detection_error' = r.ret
         /\ status' = ApplyWrites(status, r.writes, 1)
         /\ trace' = trace \o <<Ev("detect_rom_settings_from_first_chunk", "", r.ret)>>
                           \o SetEvents(r.writes)
    /\ pc' = "close"
    /\ UNCHANGED <<env, f, buf, bytes2send, chunk, is_first_chunk, rom_found_in_db,
                   rom_format, ctx, md5_hex, ipl3_crc, cart_id, region_code,
                   revision, header_hex, sink, ret>>

\* n64.cpp:926-935: the heuristic resolver, if nothing was found.
Heuristic ==
    /\ pc = "heuristic"
    /\ IF rom_found_in_db
       THEN UNCHANGED <<detection_error, status, trace>>
       ELSE \E r \in {detect_rom_settings_from_first_chunk(
                         cart_id, region_code, revision, ipl3_crc, status[F_AUTO])} :
                /\ detection_error' = r.ret
                /\ status' = ApplyWrites(status, r.writes, 1)
                /\ trace' = trace \o <<Ev("detect_rom_settings_from_first_chunk", "", r.ret)>>
                                  \o SetEvents(r.writes)
    /\ pc' = "close"
    /\ UNCHANGED <<env, f, buf, bytes2send, chunk, is_first_chunk, rom_found_in_db,
                   rom_format, ctx, md5_hex, ipl3_crc, cart_id, region_code,
                   revision, header_hex, sink, ret>>

\* Variant: after the file is closed the save file is not mounted.
CloseNoMount ==
    /\ pc = "close"
    /\ f' = [f EXCEPT !.open = FALSE]
    /\ trace' = trace \o <<Ev("FileClose", "", 0)>>
    /\ pc' = "enddl"
    /\ UNCHANGED <<env, status, buf, locals, sink, ret>>

\* n64.cpp:938.
Close ==
    /\ pc = "close"
    /\ f' = [f EXCEPT !.open = FALSE]
    /\ trace' = trace \o <<Ev("FileClose", "", 0)>>
    /\ pc' = "mount"
    /\ UNCHANGED <<env, status, buf, locals, sink, ret>>

\* n64.cpp:941-943.
Mount ==
    /\ pc = "mount"
    /\ trace' = trace \o <<Ev("FileGenerateSavePath", "", 0), Ev("user_io_file_mount", "", 0)>>
    /\ pc' = "enddl"
    /\ UNCHANGED <<env, status, f, buf, locals, sink, ret>>

\* n64.cpp:946.
EndDownload ==
    /\ pc = "enddl"
    /\ trace' = trace \o <<Ev("user_io_set_download", "", 0)>>
    /\ pc' = "clear"
    /\ UNCHANGED <<env, status, f, buf, locals, sink, ret>>

\* n64.cpp:947.
ClearProgress ==
    /\ pc = "clear"
    /\ trace' = trace \o <<Ev("ProgressMessage", "clear", 0)>>
    /\ pc' = "info"
    /\ UNCHANGED <<env, status, f, buf, locals, sink, ret>>

\* Variant: only the unknown-CIC failure is shown.
NoticeCicOnly ==
    /\ pc = "info"
    /\ trace' = IF ~rom_found_in_db /\ detection_error = 1
                THEN trace \o <<Ev("Info", "", detection_error)>>
                ELSE trace
    /\ ret' = 1 /\ pc' = "done"
    /\ UNCHANGED <<env, status, f, buf, locals, sink>>

\* Variant: a notice is shown whenever the database had no record.
NoticeOnAnyMiss ==
    /\ pc = "info"
    /\ trace' = IF ~rom_found_in_db
                THEN trace \o <<Ev("Info", "", detection_error)>>
                ELSE trace
    /\ ret' = 1 /\ pc' = "done"
    /\ UNCHANGED <<env, status, f, buf, locals, sink>>

\* n64.cpp:949-959: the failure notice, and the return.
Notice ==
    /\ pc = "info"
    /\ trace' = IF ~rom_found_in_db /\ detection_error \in {1, 2}
                THEN trace \o <<Ev("Info", "", detection_error)>>
                ELSE trace
    /\ ret' = 1 /\ pc' = "done"
    /\ UNCHANGED <<env, status, f, buf, locals, sink>>

Next ==
    \/ OpenFail \/ Open \/ Read \/ TooShort \/ DetectFormat \/ Normalize \/ Hash
    \/ HeaderLookup \/ Forward \/ Progress \/ FileDigest \/ FileLookup
    \/ Heuristic \/ Close \/ Mount \/ EndDownload \/ ClearProgress \/ Notice

(***************************************************************************)
(* n64.cpp:859-911 as a function: the bytes the loop forwards for a file   *)
(* whose bytes are data, from offset pos on, b being the content of buf    *)
(* and fmt the format detected.                                            *)
(***************************************************************************)
RECURSIVE StreamFrom(_, _, _, _)
StreamFrom(data, pos, b, fmt) ==
    IF pos >= Len(data) THEN <<>>
    ELSE LET n == Min(Len(data) - pos, BUF_SIZE)
             loaded == [p \in 1..BUF_SIZE |-> IF p <= n THEN data[pos + p] ELSE b[p]]
             nb == normalizeData(loaded, n, fmt)
         IN  SubSeq(nb, 1, n) \o StreamFrom(data, pos + n, nb, fmt)

ZeroBuf == [p \in 1..BUF_SIZE |-> 0]

\* The stream forwarded for file r (of at least BUF_SIZE bytes, or empty).
StreamOf(r) ==
    LET data == FileBytes(r)
    IN  IF Len(data) < BUF_SIZE THEN <<>>
        ELSE StreamFrom(data, 0, ZeroBuf, detectRomFormat(data))

\* The digest, in hexadecimal, of a byte sequence hashed in one piece.
HexOfBytes(bytes) ==
    With(LAMBDA b : With(LAMBDA c : With(LAMBDA d : md5_to_hex(d), MD5Digest(c)),
                         MD5Update(MD5Init, b, Len(b))),
         bytes)

(***************************************************************************)
(* The initial states: the files, databases and auto-detect settings the   *)
(* call is made with.                                                      *)
(***************************************************************************)
LongSizes ==
    {BUF_SIZE + t : t \in 0..MaxTail} \cup {k * BUF_SIZE : k \in 1..MaxChunks}

ShortSizes == {0, 1, 2048, BUF_SIZE - 1}

CRC_6105 == U64(0, \Hf8, \Hb860, \Hed00)
CRC_6102 == U64(0, \Ha3, \H16ad, \Hc55a)
CRC_NONE == U64(0, 0, \H1234, \H5678)

EvZelda == [id |-> Id3("N", "Z", "L"), region |-> Ord("E"), revision |-> 0, crc |-> CRC_6105]
EvNoCic == [id |-> Id3("N", "Z", "L"), region |-> Ord("E"), revision |-> 0, crc |-> CRC_NONE]
EvNoId == [id |-> Id3("Z", "Z", "Z"), region |-> Ord("E"), revision |-> 0, crc |-> CRC_6102]

Rom(enc, disk, size, e) ==
    [exists |-> TRUE, enc |-> enc, disk |-> disk, size |-> size, id |-> e.id,
     region |-> e.region, revision |-> e.revision, crc |-> e.crc]

NoFile == [Rom(BIG_ENDIAN, FALSE, 0, EvZelda) EXCEPT !.exists = FALSE]

\* Every byte order at every size (one header), and every outcome of the
\* heuristic resolver at two sizes; disk images; short and missing files.
FormatRoms == {Rom(enc, FALSE, sz, EvZelda) : enc \in RomFormat, sz \in LongSizes}

OutcomeRoms ==
    {Rom(BIG_ENDIAN, FALSE, sz, e) : sz \in {BUF_SIZE, BUF_SIZE + 4},
                                     e \in {EvZelda, EvNoCic, EvNoId}}

DiskRoms == {Rom(enc, TRUE, BUF_SIZE, EvZelda) : enc \in RomFormat \ {UNKNOWN}}

ShortRoms == {Rom(BIG_ENDIAN, FALSE, sz, EvZelda) : sz \in ShortSizes}

Roms == FormatRoms \cup OutcomeRoms \cup DiskRoms \cup ShortRoms \cup {NoFile}

DbMissing == [exists |-> FALSE, lines |-> <<>>]
DbFile(lines) == [exists |-> TRUE, lines |-> lines]
Line(head, tags) == [head |-> head, hasTags |-> TRUE, tags |-> tags]

TagsA == <<T_sram32k, T_rpak>>
TagsB == <<T_pal, T_cic("7", "1", "0", "1"), T_cpak, T_eeprom512>>
OtherKey == [i \in 1..32 |-> "0"]

\* The databases a call may find, hk and fk being the header and file
\* digests of the source.
DbNone == <<DbMissing, DbMissing>>
DbBoth(hk, fk) == <<DbFile(<<Line(fk, TagsB), Line(hk, TagsA)>>), DbMissing>>

DbFileOnly(fk) == <<DbMissing, DbFile(<<Line(fk, TagsA)>>)>>

DbConfigs(hk, fk) ==
    { DbNone,
      <<DbFile(<<Line(OtherKey, TagsB), Line(hk, TagsA)>>), DbMissing>>,
      <<DbFile(<<Line(fk, TagsB)>>), DbFile(<<>>)>>,
      DbBoth(hk, fk),
      <<DbFile(<<Line(fk, TagsB)>>), DbFile(<<Line(hk, TagsA)>>)>> }

\* The databases and auto-detect settings source r is ingested with.
DbChoices(r, hk, fk) ==
    IF r \in OutcomeRoms THEN DbConfigs(hk, fk)
    ELSE IF r \in FormatRoms THEN {DbNone, DbBoth(hk, fk), DbFileOnly(fk)}
    ELSE {DbNone}

AutoChoices(r) == IF r \in OutcomeRoms THEN {ON, OFF} ELSE {ON}

InitStatus(auto) ==
    [fld \in ProfileFields \cup {F_AUTO} |-> IF fld = F_AUTO THEN auto ELSE 0]

NdIdle == [pc |-> "idle", data |-> <<>>, format |-> UNKNOWN, pos |-> 0, cuts |-> 0,
           whole |-> <<>>, parts |-> <<>>, twice |-> <<>>]

Idle == [pc |-> "idle"]

Init ==
    /\ nd = NdIdle /\ db = Idle /\ hs = Idle /\ fd = Idle
    /\ \E r \in Roms :
         \E stream \in {StreamOf(r)} :
           \E hk \in {HexOfBytes(SubSeq(stream, 1, Min(Len(stream), BUF_SIZE)))},
              fk \in {HexOfBytes(stream)} :
              /\ name = r
              /\ dbs \in DbChoices(r, hk, fk)
              /\ status \in {InitStatus(a) : a \in AutoChoices(r)}
    /\ pc = "start"
    /\ f = [open |-> FALSE, pos |-> 0]
    /\ buf = ZeroBuf
    /\ bytes2send = 0 /\ chunk = 0 /\ is_first_chunk = TRUE
    /\ rom_found_in_db = FALSE /\ detection_error = 0 /\ rom_format = UNKNOWN
    /\ ctx = MD5Init /\ md5_hex = <<>> /\ ipl3_crc = U64(0, 0, 0, 0)
    /\ cart_id = <<>> /\ region_code = 0 /\ revision = 0 /\ header_hex = <<>>
    /\ sink = <<>> /\ trace = <<>> /\ ret = -1

Spec == Init /\ [][Next]_vars

(***************************************************************************)
(* normalizeData on its own: a buffer is normalised in one call (whole),   *)
(* chunk by chunk for some split into chunks whose lengths are multiples   *)
(* of the group length (parts), and the result of the one call is          *)
(* normalised once more (twice).                                           *)
(***************************************************************************)
\* Bound of NormSpec: the buffers hold up to MaxNormWords 4-byte words.
MaxNormWords == 2

NormBuffers ==
    {[i \in 1..(4 * w) |-> (i * k + c) % 256] : w \in 0..MaxNormWords, k \in 1..3, c \in {0, 250}}

\* n64_rom_tx is not being called.
PipelineIdle ==
    /\ name = NoFile /\ dbs = DbNone /\ status = InitStatus(ON)
    /\ pc = "idle" /\ f = [open |-> FALSE, pos |-> 0] /\ buf = ZeroBuf
    /\ bytes2send = 0 /\ chunk = 0 /\ is_first_chunk = TRUE
    /\ rom_found_in_db = FALSE /\ detection_error = 0 /\ rom_format = UNKNOWN
    /\ ctx = MD5Init /\ md5_hex = <<>> /\ ipl3_crc = U64(0, 0, 0, 0)
    /\ cart_id = <<>> /\ region_code = 0 /\ revision = 0 /\ header_hex = <<>>
    /\ sink = <<>> /\ trace = <<>> /\ ret = -1

NormInit ==
    /\ PipelineIdle /\ db = Idle /\ hs = Idle /\ fd = Idle
    /\ \E d \in NormBuffers, fmt \in RomFormat :
         nd = [NdIdle EXCEPT !.pc = "start", !.data = d, !.format = fmt]

pipeline == <<name, dbs, status, pc, f, buf, locals, sink, trace, ret>>

NormWhole ==
    /\ nd.pc = "start"
    /\ nd' = [nd EXCEPT !.whole = normalizeData(nd.data, Len(nd.data), nd.format),
                        !.pc = "split"]
    /\ UNCHANGED <<pipeline, db, hs, fd>>

\* The next chunk: n bytes, a multiple of the group length.
NormChunk ==
    /\ nd.pc = "split" /\ nd.pos < Len(nd.data)
    /\ \E n \in 1..(Len(nd.data) - nd.pos) :
         /\ n % GroupLen(nd.format) = 0
         /\ nd' = [nd EXCEPT
                      !.parts = @ \o normalizeData(SubSeq(nd.data, nd.pos + 1, nd.pos + n),
                                                   n, nd.format),
                      !.pos = @ + n, !.cuts = @ + 1]
    /\ UNCHANGED <<pipeline, db, hs, fd>>

NormAgain ==
    /\ nd.pc = "split" /\ nd.pos = Len(nd.data)
    /\ nd' = [nd EXCEPT !.twice = normalizeData(nd.whole, Len(nd.whole), nd.format),
                        !.pc = "done"]
    /\ UNCHANGED <<pipeline, db, hs, fd>>

NormNext == NormWhole \/ NormChunk \/ NormAgain

NormSpec == NormInit /\ [][NormNext]_vars

(***************************************************************************)
(* detect_rom_settings_in_dbs on its own, file by file: db.files are the   *)
(* database files in the order of DB_FILE_NAMES, db.k the one the loop is  *)
(* at and db.consulted the ones detect_rom_settings_in_db was called on.   *)
(***************************************************************************)
\* Bound of DbSpec: a database file holds up to MaxDbLines lines.
MaxDbLines == 2

KeyOne == [i \in 1..32 |-> "1"]

DbLines ==
    {Line(KeyOne, TagsA), Line(KeyOne, TagsB), Line(OtherKey, TagsB),
     Line(KeyOne, <<T_rpak>>),
     [head |-> KeyOne, hasTags |-> FALSE, tags |-> <<>>]}

DbLineSeqs == UNION {[1..n -> DbLines] : n \in 0..MaxDbLines}

DbFiles == {DbMissing} \cup {DbFile(ls) : ls \in DbLineSeqs}

DbInit ==
    /\ PipelineIdle /\ nd = NdIdle /\ hs = Idle /\ fd = Idle
    /\ \E f1 \in DbFiles, f2 \in DbFiles, a \in {ON, OFF} :
         db = [pc |-> "scan", key |-> KeyOne, files |-> <<f1, f2>>, auto |-> a, k |-> 1,
               consulted |-> <<>>, found |-> FALSE, writes |-> <<>>]

\* Variant: a hit does not end the loop; a later file overrides it.
DbTryNoReturn ==
    /\ db.pc = "scan" /\ db.k <= Len(db.files)
    /\ \E r \in {detect_rom_settings_in_db(db.key, db.files[db.k], db.auto)} :
         db' = [db EXCEPT !.consulted = Append(@, db.k),
                          !.found = @ \/ r.found,
                          !.writes = IF r.found THEN r.writes ELSE @,
                          !.k = @ + 1]
    /\ UNCHANGED <<pipeline, nd, hs, fd>>

\* n64.cpp:237-241: one pass of the loop over DB_FILE_NAMES.
DbTry ==
    /\ db.pc = "scan" /\ db.k <= Len(db.files)
    /\ \E r \in {detect_rom_settings_in_db(db.key, db.files[db.k], db.auto)} :
         db' = [db EXCEPT !.consulted = Append(@, db.k),
                          !.found = r.found,
                          !.writes = r.writes,
                          !.pc = IF r.found THEN "done" ELSE "scan",
                          !.k = IF r.found THEN @ ELSE @ + 1]
    /\ UNCHANGED <<pipeline, nd, hs, fd>>

\* n64.cpp:242: no file reported a hit.
DbMiss ==
    /\ db.pc = "scan" /\ db.k > Len(db.files)
    /\ db' = [db EXCEPT !.found = FALSE, !.pc = "done"]
    /\ UNCHANGED <<pipeline, nd, hs, fd>>

DbNext == DbTry \/ DbMiss

DbSpec == DbInit /\ [][DbNext]_vars

(***************************************************************************)
(* The tag loop of detect_rom_settings_in_db on its own (n64.cpp:156-200), *)
(* one pass per step, run side by side on a record's tag list db.tags and  *)
(* on a second list db.other.  db.profile and db.profile2 are the locals   *)
(* save_type .. rtc of the two runs, db.entry the row of TagTable whose    *)
(* tag the last element of db.tags spells (0 if none).                     *)
(***************************************************************************)
MaxTags == 3

toupper(c) == IF IsIn(LowerCase, c) THEN UpperCase[IndexIn(LowerCase, c)] ELSE c

\* The token table: each case label of the switch with the local it assigns.
TagTable ==
    <<[tag |-> T_eeprom512, field |-> "save_type", value |-> EEPROM_512],
      [tag |-> T_eeprom2k, field |-> "save_type", value |-> EEPROM_2k],
      [tag |-> T_sram32k, field |-> "save_type", value |-> SRAM_32k],
      [tag |-> T_sram96k, field |-> "save_type", value |-> SRAM_96k],
      [tag |-> T_flash128k, field |-> "save_type", value |-> FLASH_128k],
      [tag |-> T_ntsc, field |-> "system_type", value |-> NTSC],
      [tag |-> T_pal, field |-> "system_type", value |-> PAL],
      [tag |-> T_cpak, field |-> "cpak", value |-> TRUE],
      [tag |-> T_rpak, field |-> "rpak", value |-> TRUE],
      [tag |-> T_tpak, field |-> "tpak", value |-> TRUE],
      [tag |-> T_rtc, field |-> "rtc", value |-> TRUE],
      [tag |-> T_cic("6", "1", "0", "1"), field |-> "cic", value |-> CIC_NUS_6101],
      [tag |-> T_cic("6", "1", "0", "2"), field |-> "cic", value |-> CIC_NUS_6102],
      [tag |-> T_cic("6", "1", "0", "3"), field |-> "cic", value |-> CIC_NUS_6103],
      [tag |-> T_cic("6", "1", "0", "5"), field |-> "cic", value |-> CIC_NUS_6105],
      [tag |-> T_cic("6", "1", "0", "6"), field |-> "cic", value |-> CIC_NUS_6106],
      [tag |-> T_cic("7", "1", "0", "1"), field |-> "cic", value |-> CIC_NUS_7101],
      [tag |-> T_cic("7", "1", "0", "2"), field |-> "cic", value |-> CIC_NUS_7102],
      [tag |-> T_cic("7", "1", "0", "3"), field |-> "cic", value |-> CIC_NUS_7103],
      [tag |-> T_cic("7", "1", "0", "5"), field |-> "cic", value |-> CIC_NUS_7105],
      [tag |-> T_cic("7", "1", "0", "6"), field |-> "cic", value |-> CIC_NUS_7106],
      [tag |-> T_cic("8", "3", "0", "3"), field |-> "cic", value |-> CIC_NUS_8303],
      [tag |-> T_cic("8", "4", "0", "1"), field |-> "cic", value |-> CIC_NUS_8401],
      [tag |-> T_cic("5", "1", "6", "7"), field |-> "cic", value |-> CIC_NUS_5167],
      [tag |-> T_cic("D", "D", "U", "S"), field |-> "cic", value |-> CIC_NUS_DDUS]>>

\* Every upper/lower-case spelling of a tag.
RECURSIVE Spellings(_)
Spellings(t) ==
    IF t = <<>> THEN {<<>>}
    ELSE {<<c>> \o r : c \in {tolower(t[1]), toupper(t[1])}, r \in Spellings(Tail(t))}

\* Records whose last tag is a spelling of a table tag; the tags before it
\* move the system type and the CIC off their defaults.
ProbePrefix == <<T_pal, T_cic("7", "1", "0", "1")>>
SpelledRecords ==
    UNION {{[tags |-> Append(ProbePrefix, s), entry |-> e] : s \in Spellings(TagTable[e].tag)} :
              e \in 1..Len(TagTable)}

\* Records of up to MaxTags tags, each with a reordering of itself.
PermTags == {T_sram32k, T_eeprom512, T_pal, T_cpak, T_rpak, T_cic("6", "1", "0", "5")}
PermsOf(t) == {[i \in 1..Len(t) |-> t[g[i]]] : g \in Permutations(1..Len(t))}
TagLists == UNION {[1..n -> PermTags] : n \in 1..MaxTags}

TagInit ==
    /\ PipelineIdle /\ nd = NdIdle /\ hs = Idle /\ fd = Idle
    /\ \/ \E r \in SpelledRecords :
            db = [pc |-> "tags", tags |-> r.tags, other |-> r.tags, entry |-> r.entry,
                  i |-> 1, profile |-> DefaultProfile, profile2 |-> DefaultProfile]
       \/ \E t \in TagLists : \E q \in PermsOf(t) :
            db = [pc |-> "tags", tags |-> t, other |-> q, entry |-> 0,
                  i |-> 1, profile |-> DefaultProfile, profile2 |-> DefaultProfile]

\* Variant: the locals are set to their defaults in every pass of the loop.
TagStepResetDefaults ==
    /\ db.pc = "tags"
    /\ db' = [db EXCEPT !.profile = ApplyTag(DefaultProfile, db.tags[db.i]),
                        !.profile2 = ApplyTag(DefaultProfile, db.other[db.i]),
                        !.i = @ + 1,
                        !.pc = IF db.i = Len(db.tags) THEN "tagsdone" ELSE "tags"]
    /\ UNCHANGED <<pipeline, nd, hs, fd>>

\* n64.cpp:166-200: one pass of the strtok loop.
TagStep ==
    /\ db.pc = "tags"
    /\ db' = [db EXCEPT !.profile = ApplyTag(@, db.tags[db.i]),
                        !.profile2 = ApplyTag(@, db.other[db.i]),
                        !.i = @ + 1,
                        !.pc = IF db.i = Len(db.tags) THEN "tagsdone" ELSE "tags"]
    /\ UNCHANGED <<pipeline, nd, hs, fd>>

TagNext == TagStep

TagSpec == TagInit /\ [][TagNext]_vars

(***************************************************************************)
(* detect_rom_settings_from_first_chunk on its own, step by step, called   *)
(* twice with the same arguments; between the calls the configuration      *)
(* store may be set to anything.  hs.store is the configuration store,     *)
(* hs.store0 what it was when the call was entered, hs.writes the fields   *)
(* written by the call, hs.consulted whether switch (fnv_hash(id)) was     *)
(* reached, hs.first what the first call returned and wrote.               *)
(***************************************************************************)
HsIds ==
    {Id3("N", "Z", "L"), Id3("Z", "Z", "Z"), Id3("N", "S", "M"), Id3("N", "K", "4"),
     Id3("N", "W", "R")}
HsRegions == {Ord("E"), Ord("J"), Ord("P")}
HsRevisions == {0, 1, 2, 3}
HsCrcs ==
    {CRC_6105, CRC_6102, CRC_NONE, U64(0, \Ha4, \H0539, \H7b05),
     U64(0, \Ha9, \H229d, \H7c45), U64(0, \Hba, \H5ba4, \Hb8cd),
     U64(0, \Ha0, \Hf26f, \H62fe)}

HsStores ==
    {[InitStatus(a) EXCEPT ![F_SYSTEM] = sy] : a \in {ON, OFF}, sy \in {NTSC, PAL}}

HeurInit ==
    /\ PipelineIdle /\ nd = NdIdle /\ db = Idle /\ fd = Idle
    /\ \E id \in HsIds, rg \in HsRegions, rv \in HsRevisions, crc \in HsCrcs,
          st \in HsStores :
         hs = [pc |-> "entry", call |-> 1, id |-> id, region |-> rg, revision |-> rv,
               crc |-> crc, store |-> st, store0 |-> st, sys |-> NTSC,
               consulted |-> FALSE, ret |-> 0, writes |-> <<>>,
               first |-> [ret |-> 0, writes |-> <<>>, auto |-> ON]]

\* Variant: system_type starts from the value in the configuration store.
HsEnterStoredSystem ==
    /\ hs.pc = "entry"
    /\ hs' = IF hs.store[F_AUTO] # ON
             THEN [hs EXCEPT !.ret = 0, !.pc = "ret"]
             ELSE [hs EXCEPT !.sys = IF hs.region \in PalRegions THEN PAL
                                     ELSE hs.store[F_SYSTEM],
                             !.pc = "crc"]
    /\ UNCHANGED <<pipeline, nd, db, fd>>

\* n64.cpp:247-277: the auto-detect flag, then the region code.
HsEnter ==
    /\ hs.pc = "entry"
    /\ hs' = IF hs.store[F_AUTO] # ON
             THEN [hs EXCEPT !.ret = 0, !.pc = "ret"]
             ELSE [hs EXCEPT !.sys = IF hs.region \in PalRegions THEN PAL ELSE NTSC,
                             !.pc = "crc"]
    /\ UNCHANGED <<pipeline, nd, db, fd>>

\* Variant: an unknown checksum does not end the call.
HsCicFallThrough ==
    /\ hs.pc = "crc"
    /\ \E c \in {CicOfCrc(hs.crc, hs.sys)} :
         hs' = [hs EXCEPT !.writes = @ \o CicWrites(c),
                          !.store = ApplyWrites(@, CicWrites(c), 1),
                          !.pc = "id"]
    /\ UNCHANGED <<pipeline, nd, db, fd>>

\* Variant: the system type written is the one the region code gave,
\* whatever the checksum switch set.
HsCicKeepRegionSystem ==
    /\ hs.pc = "crc"
    /\ \E c \in {CicOfCrc(hs.crc, hs.sys)} :
         hs' = IF ~c[1]
               THEN [hs EXCEPT !.ret = 1, !.pc = "ret"]
               ELSE [hs EXCEPT !.writes = @ \o CicWrites(<<c[1], c[2], hs.sys>>),
                               !.store = ApplyWrites(@, CicWrites(<<c[1], c[2], hs.sys>>), 1),
                               !.pc = "id"]
    /\ UNCHANGED <<pipeline, nd, db, fd>>

\* Variant: the checksum switch sees the default system type, not the one
\* the region code gave.
HsCicDefaultSystem ==
    /\ hs.pc = "crc"
    /\ \E c \in {CicOfCrc(hs.crc, NTSC)} :
         hs' = IF ~c[1]
               THEN [hs EXCEPT !.ret = 1, !.pc = "ret"]
               ELSE [hs EXCEPT !.writes = @ \o CicWrites(<<c[1], c[2], hs.sys>>),
                               !.store = ApplyWrites(@, CicWrites(<<c[1], c[2], hs.sys>>), 1),
                               !.pc = "id"]
    /\ UNCHANGED <<pipeline, nd, db, fd>>

\* n64.cpp:280-315: the checksum; system type and CIC are written.
HsCic ==
    /\ hs.pc = "crc"
    /\ \E c \in {CicOfCrc(hs.crc, hs.sys)} :
         hs' = IF ~c[1]
               THEN [hs EXCEPT !.ret = 1, !.pc = "ret"]
               ELSE [hs EXCEPT !.writes = @ \o CicWrites(c),
                               !.store = ApplyWrites(@, CicWrites(c), 1),
                               !.pc = "id"]
    /\ UNCHANGED <<pipeline, nd, db, fd>>

\* Variant: an unknown cartridge ID still writes the five remaining fields.
HsCartWriteDefaults ==
    /\ hs.pc = "id"
    /\ \E cart \in {CartOfId(hs.id, hs.region, hs.revision)} :
         hs' = [hs EXCEPT !.consulted = TRUE,
                          !.ret = IF cart.known THEN 0 ELSE 2,
                          !.writes = @ \o CartWrites(cart),
                          !.store = ApplyWrites(@, CartWrites(cart), 1),
                          !.pc = "ret"]
    /\ UNCHANGED <<pipeline, nd, db, fd>>

\* Variant: the special cases do not see the revision.
HsCartIgnoreRevision ==
    /\ hs.pc = "id"
    /\ \E cart \in {CartOfId(hs.id, hs.region, 0)} :
         hs' = IF ~cart.known
               THEN [hs EXCEPT !.consulted = TRUE, !.ret = 2, !.pc = "ret"]
               ELSE [hs EXCEPT !.consulted = TRUE, !.ret = 0,
                               !.writes = @ \o CartWrites(cart),
                               !.store = ApplyWrites(@, CartWrites(cart), 1),
                               !.pc = "ret"]
    /\ UNCHANGED <<pipeline, nd, db, fd>>

\* n64.cpp:317-807: the cartridge ID; the five remaining fields are written.
HsCart ==
    /\ hs.pc = "id"
    /\ \E cart \in {CartOfId(hs.id, hs.region, hs.revision)} :
         hs' = IF ~cart.known
               THEN [hs EXCEPT !.consulted = TRUE, !.ret = 2, !.pc = "ret"]
               ELSE [hs EXCEPT !.consulted = TRUE, !.ret = 0,
                               !.writes = @ \o CartWrites(cart),
                               !.store = ApplyWrites(@, CartWrites(cart), 1),
                               !.pc = "ret"]
    /\ UNCHANGED <<pipeline, nd, db, fd>>

\* The first call has returned: the store is set to anything, and the
\* second call is made with the same arguments.
HsCallAgain ==
    /\ hs.pc = "ret" /\ hs.call = 1
    /\ \E st \in HsStores :
         hs' = [hs EXCEPT !.first = [ret |-> hs.ret, writes |-> hs.writes,
                                     auto |-> hs.store0[F_AUTO]],
                          !.call = 2, !.store = st, !.store0 = st, !.sys = NTSC,
                          !.consulted = FALSE, !.ret = 0, !.writes = <<>>,
                          !.pc = "entry"]
    /\ UNCHANGED <<pipeline, nd, db, fd>>

HeurNext == HsEnter \/ HsCic \/ HsCart \/ HsCallAgain

HeurSpec == HeurInit /\ [][HeurNext]_vars

(***************************************************************************)
(* detectRomFormat on its own: fd.data is the buffer it is given.          *)
(***************************************************************************)
\* The bytes of the magic values, and two others.
FdBytes == {128, 55, 18, 64, 39, 7, 0, 255}

FdTails == {<<0, 0, 0, 0>>, <<64, 18, 55, 128>>}

FormatInit ==
    /\ PipelineIdle /\ nd = NdIdle /\ db = Idle /\ hs = Idle
    /\ \E b1 \in FdBytes, b2 \in FdBytes, b3 \in FdBytes, b4 \in FdBytes, t \in FdTails :
         fd = [pc |-> "start", data |-> <<b1, b2, b3, b4>> \o t, result |-> UNKNOWN]

\* n64.cpp:71-83.
FdDetect ==
    /\ fd.pc = "start"
    /\ fd' = [fd EXCEPT !.result = detectRomFormat(fd.data), !.pc = "done"]
    /\ UNCHANGED <<pipeline, nd, db, hs>>

FormatNext == FdDetect

FormatSpec == FormatInit /\ [][FormatNext]_vars

(***************************************************************************)
(* The boot-code checksum of n64_rom_tx on its own (n64.cpp:854,898), over *)
(* a normalised first chunk fd.data: fd.acc is ipl3_crc.                   *)
(***************************************************************************)
FIRST_WORD == OFF_IPL3 \div 4
END_WORD == BUF_SIZE \div 4

\* Normalised first chunks: a cartridge image, all bytes 255, the bytes
\* 1 2 3 4 repeated, and counting patterns.
CrcBuffers ==
    {[p \in 1..BUF_SIZE |-> CanonByte(Rom(BIG_ENDIAN, FALSE, BUF_SIZE, EvZelda), p - 1)],
     [p \in 1..BUF_SIZE |-> 255],
     [p \in 1..BUF_SIZE |-> ((p - 1) % 4) + 1]}
        \cup {[p \in 1..BUF_SIZE |-> (p * (2 * m + 1) + 31 * c) % 256] : m \in 0..7, c \in 0..7}

CrcInit ==
    /\ PipelineIdle /\ nd = NdIdle /\ db = Idle /\ hs = Idle
    /\ \E d \in CrcBuffers :
         fd = [pc |-> "sum", data |-> d, acc |-> U64(0, 0, 0, 0)]

\* n64.cpp:898: the loop over the words of the window.
CrcSum ==
    /\ fd.pc = "sum"
    /\ fd' = [fd EXCEPT !.acc = Ipl3Crc(@, fd.data), !.pc = "summed"]
    /\ UNCHANGED <<pipeline, nd, db, hs>>

CrcNext == CrcSum

CrcSpec == CrcInit /\ [][CrcNext]_vars

(***************************************************************************)
(* Properties.  The calls made are read off trace.                         *)
(***************************************************************************)
\* The positions of trace that record a call of op, resp. of op with arg.
Calls(op) == {i \in 1..Len(trace) : trace[i].op = op}
CallsWith(op, arg) == {i \in Calls(op) : trace[i].arg = arg}

\* The lines of the database files present, in the order they are searched.
LinesOf(d) == IF d.exists THEN d.lines ELSE <<>>
AllLines == LinesOf(dbs[1]) \o LinesOf(dbs[2])
RecordsFor(key) == SelectSeq(AllLines, LAMBDA l : l.head = key /\ l.hasTags)

\* The configuration store holds the profile of database record l.
HoldsProfileOf(l) ==
    \E w \in {DbWrites(ApplyTags(DefaultProfile, l.tags, 1))} :
        \A i \in 1..Len(w) : status[w[i][1]] = w[i][2]

\* C1: once the header digest has matched a database record, the ROM counts
\* as found, the profile in the configuration store (auto-detect being on)
\* is that record's, and neither the lookup by file digest nor the
\* heuristic resolver is ever called, whatever record the file digest has.
C1_HeaderHitWins ==
    (header_hex # <<>> /\ RecordsFor(header_hex) # <<>>) =>
        /\ rom_found_in_db
        /\ CallsWith("detect_rom_settings_in_dbs", "file") = {}
        /\ Calls("detect_rom_settings_from_first_chunk") = {}
        /\ status[F_AUTO] = ON => HoldsProfileOf(RecordsFor(header_hex)[1])

\* C1 happens: a call has returned for a source whose header digest has a
\* record while a record of another profile is keyed by its file digest.
C1_Witness ==
    /\ pc = "done" /\ ret = 1 /\ status[F_AUTO] = ON
    /\ md5_hex # header_hex
    /\ RecordsFor(header_hex) # <<>> /\ RecordsFor(md5_hex) # <<>>
    /\ ~HoldsProfileOf(RecordsFor(md5_hex)[1])
    /\ HoldsProfileOf(RecordsFor(header_hex)[1])

\* The resolution call that a configuration write at position i belongs to:
\* the last lookup or heuristic call before it (0: none).
ResolverCalls ==
    Calls("detect_rom_settings_in_dbs") \cup Calls("detect_rom_settings_from_first_chunk")
Origin(i) ==
    IF \E j \in ResolverCalls : j < i
    THEN CHOOSE j \in ResolverCalls : j < i /\ \A k \in ResolverCalls : k < i => k <= j
    ELSE 0

\* C2: all configuration writes of a call are made by one resolution path
\* (lookup by header digest, lookup by file digest, or heuristic resolver),
\* and no field is written twice.
C2_OneWriter ==
    \A i, j \in Calls("user_io_status_set") :
        /\ Origin(i) # 0
        /\ Origin(i) = Origin(j)
        /\ i # j => trace[i].arg # trace[j].arg

\* C2 happens: a call has returned after a hit by file digest wrote the
\* seven fields of the profile.
C2_Witness ==
    /\ pc = "done" /\ ret = 1
    /\ \E k \in CallsWith("detect_rom_settings_in_dbs", "file") : trace[k].val = 1
    /\ Cardinality(Calls("user_io_status_set")) = 7

\* C3: the heuristic resolver is called only after a lookup by header
\* digest and a lookup by file digest have both missed, the lookup by file
\* digest only after the lookup by header digest has missed, and after a
\* hit no further lookup or heuristic call is made.
C3_TierOrder ==
    /\ \A i \in Calls("detect_rom_settings_from_first_chunk") :
         /\ \E j \in CallsWith("detect_rom_settings_in_dbs", "header") :
               j < i /\ trace[j].val = 0
         /\ \E j \in CallsWith("detect_rom_settings_in_dbs", "file") :
               j < i /\ trace[j].val = 0
    /\ \A i \in CallsWith("detect_rom_settings_in_dbs", "file") :
         \E j \in CallsWith("detect_rom_settings_in_dbs", "header") :
               j < i /\ trace[j].val = 0
    /\ \A i \in Calls("detect_rom_settings_in_dbs") :
         trace[i].val = 1 => \A j \in ResolverCalls : j <= i

\* The byte-order groups of the source that are complete end here.
CompleteEnd(r) == (r.size \div GroupLen(r.enc)) * GroupLen(r.enc)

\* The calls of normalizeData and user_io_file_tx_data, in order.
ChunkCalls ==
    SelectSeq(trace, LAMBDA e : e.op \in {"normalizeData", "user_io_file_tx_data"})

C5_ShortSource ==
    (name.exists /\ name.size \in 1..(BUF_SIZE - 1)) =>
        /\ Calls("normalizeData") = {} /\ Calls("MD5Update") = {}
        /\ Calls("MD5Final") = {}
        /\ Calls("user_io_status_set") = {} /\ Calls("user_io_file_tx_data") = {}
        /\ sink = <<>>
        /\ status = InitStatus(status[F_AUTO])
        /\ pc = "done" => ret = 0

\* C5 happens: the call has returned 0 for a source of 2048 bytes.
C5_Witness ==
    /\ pc = "done" /\ ret = 0 /\ name.exists /\ name.size = 2048
    /\ Calls("FileReadAdv") # {}

\* The calls that write to the core or the display.
ExternalWrites ==
    {"user_io_set_index", "user_io_set_download", "ProgressMessage", "process_ss",
     "user_io_status_set", "user_io_file_tx_data", "user_io_file_mount"}

\* C6: when the call returns 0 (the source cannot be opened, or is shorter
\* than 4096 bytes), it has made no external write: no index, no start of
\* transfer, no progress update, no save-state processing, no configuration
\* write and no byte forwarded.
C6_AbortWritesNothing ==
    (pc = "done" /\ ret = 0) =>
        /\ \A i \in 1..Len(trace) : trace[i].op \notin ExternalWrites
        /\ sink = <<>>
        /\ status = InitStatus(status[F_AUTO])

\* The terminal calls, in order.
Terminal ==
    <<"FileClose", "FileGenerateSavePath", "user_io_file_mount",
      "user_io_set_download", "ProgressMessage">>

\* C7: a call for a source of at least 4096 bytes returns 1, and when a call
\* has returned 1 it has closed the source, derived the save path, mounted
\* it, signalled the end of the transfer and cleared the progress display,
\* once each, in this order, after everything else but the failure notice.
C7_TerminalActions ==
    /\ (pc = "done" /\ name.exists /\ name.size >= BUF_SIZE) => ret = 1
    /\ (pc = "done" /\ ret = 1) =>
         /\ \A i \in 1..3 : Cardinality(Calls(Terminal[i])) = 1
         /\ Cardinality({i \in Calls("user_io_set_download") : trace[i].val = 0}) = 1
         /\ \E k \in Calls("FileClose") :
              /\ k + 4 <= Len(trace)
              /\ \A i \in 1..5 : trace[k + i - 1].op = Terminal[i]
              /\ trace[k + 3].val = 0
              /\ trace[k + 4].arg = "clear"
              /\ \A i \in (k + 5)..Len(trace) : trace[i].op = "Info"
              /\ ~f.open

\* C7 happens: a call has returned after the heuristic resolver did not
\* know the cartridge ID, and the notice is the last call.
C7_Witness ==
    /\ pc = "done" /\ ret = 1 /\ detection_error = 2
    /\ trace[Len(trace)] = Ev("Info", "", 2)
    /\ trace[Len(trace) - 1] = Ev("ProgressMessage", "clear", 0)
    /\ trace[Len(trace) - 2] = Ev("user_io_set_download", "", 0)

\* C8: after the header digest is taken the live accumulator is that of the
\* first chunk alone, and the file digest is the digest of all the bytes
\* normalised and forwarded, hashed in one piece.
C8_SnapshotKeepsAccumulator ==
    /\ (pc = "forward" /\ is_first_chunk) =>
         /\ ctx = MD5Update(MD5Init, buf, chunk)
         /\ header_hex = HexOfBytes(SubSeq(buf, 1, chunk))
    /\ pc = "filedb" => md5_hex = HexOfBytes(sink)

\* C8 happens: the file digest of a source of more than one chunk has been
\* taken, and it is not the header digest.
C8_Witness ==
    /\ pc = "filedb" /\ Len(sink) > BUF_SIZE
    /\ header_hex # <<>> /\ md5_hex # header_hex
    /\ md5_hex = HexOfBytes(sink)

\* C9: normalising a buffer chunk by chunk, the chunk lengths being
\* multiples of the group length of the format, gives at every step the
\* prefix of what one call on the whole buffer gives, and in the end all
\* of it.
C9_ChunkedIsWhole ==
    nd.pc \in {"split", "done"} =>
        /\ Len(nd.parts) = nd.pos
        /\ nd.parts = SubSeq(nd.whole, 1, nd.pos)
        /\ nd.pc = "done" => nd.parts = nd.whole

\* C9 happens: a little-endian buffer of two words was normalised in two
\* chunks, which changed it.
C9_Witness ==
    /\ nd.pc = "done" /\ nd.format = LITTLE_ENDIAN /\ Len(nd.data) = 8
    /\ nd.cuts = 2 /\ nd.parts = nd.whole /\ nd.whole # nd.data

\* C10: for a buffer whose length is a multiple of 4, normalising twice as
\* byte-swapped or as little-endian gives the buffer back, and normalising
\* as big-endian or as unknown leaves it as it is.
C10_RoundTrip ==
    (nd.pc = "done" /\ Len(nd.data) % 4 = 0) =>
        /\ nd.twice = nd.data
        /\ nd.format \in {BIG_ENDIAN, UNKNOWN} => nd.whole = nd.data

\* C10 happens: a byte-swapped buffer was changed by the first call and
\* restored by the second.
C10_Witness ==
    /\ nd.pc = "done" /\ nd.format = BYTE_SWAPPED /\ Len(nd.data) = 8
    /\ nd.whole # nd.data /\ nd.twice = nd.data

\* The positions from which on md5_hex is the file digest.
AfterFileDigest ==
    pc \in {"filedb", "heuristic", "close", "mount", "enddl", "clear", "info"}
        \/ (pc = "done" /\ ret = 1)

\* C11: while the auto-detect flag reads off, no configuration field is
\* ever written; a record under the header digest, resp. the file digest,
\* still makes the ROM count as found, so that the lower tiers are not
\* called; and a source of at least 4096 bytes is forwarded in full.
C11_AutoDetectOff ==
    status[F_AUTO] # ON =>
        /\ Calls("user_io_status_set") = {}
        /\ status = InitStatus(status[F_AUTO])
        /\ (header_hex # <<>> /\ RecordsFor(header_hex) # <<>>) =>
              /\ rom_found_in_db
              /\ CallsWith("detect_rom_settings_in_dbs", "file") = {}
              /\ Calls("detect_rom_settings_from_first_chunk") = {}
        /\ (AfterFileDigest /\ pc # "filedb" /\ RecordsFor(md5_hex) # <<>>) =>
              /\ rom_found_in_db
              /\ Calls("detect_rom_settings_from_first_chunk") = {}
        /\ (pc = "done" /\ name.exists /\ name.size >= BUF_SIZE) =>
              /\ ret = 1
              /\ Len(sink) = name.size
              /\ \A p \in 1..CompleteEnd(name) : sink[p] = CanonByte(name, p - 1)

\* C11 happens: with the flag off a call has returned for a source whose
\* file digest, but not its header digest, has a record.
C11_Witness ==
    /\ pc = "done" /\ ret = 1 /\ status[F_AUTO] = OFF
    /\ RecordsFor(header_hex) = <<>> /\ RecordsFor(md5_hex) # <<>>
    /\ rom_found_in_db /\ Len(sink) = BUF_SIZE + 4
    /\ \E k \in CallsWith("detect_rom_settings_in_dbs", "file") : trace[k].val = 1

\* Tag t is among the tags of database record l.
TagIn(l, t) == \E i \in 1..Len(l.tags) : l.tags[i] = t

\* The memory type named by the save tag of record l (none: NONE).
SaveNamedBy(l) ==
    CASE TagIn(l, T_eeprom512) -> EEPROM_512
      [] TagIn(l, T_eeprom2k) -> EEPROM_2k
      [] TagIn(l, T_sram32k) -> SRAM_32k
      [] TagIn(l, T_sram96k) -> SRAM_96k
      [] TagIn(l, T_flash128k) -> FLASH_128k
      [] OTHER -> NONE

\* C13: when a call has returned for a source whose header digest has no
\* record and whose file digest has one (auto-detect on), the heuristic
\* resolver was not called, each peripheral field is 1 iff the record has
\* its tag, and the save-type field is the memory type its save tag names.
C13_FileRecordProfile ==
    (pc = "done" /\ ret = 1 /\ status[F_AUTO] = ON
        /\ RecordsFor(header_hex) = <<>> /\ RecordsFor(md5_hex) # <<>>) =>
        \E l \in {RecordsFor(md5_hex)[1]} :
            /\ rom_found_in_db
            /\ Calls("detect_rom_settings_from_first_chunk") = {}
            /\ status[F_CPAK] = B2N(TagIn(l, T_cpak))
            /\ status[F_RPAK] = B2N(TagIn(l, T_rpak))
            /\ status[F_TPAK] = B2N(TagIn(l, T_tpak))
            /\ status[F_RTC] = B2N(TagIn(l, T_rtc))
            /\ status[F_SAVE] = SaveNamedBy(l)

\* C13 happens: a little-endian source whose file digest alone has the
\* record sram32k|rpak ends with 32 KiB SRAM, rumble pak, no controller pak.
C13_Witness ==
    /\ pc = "done" /\ ret = 1 /\ status[F_AUTO] = ON
    /\ name.enc = LITTLE_ENDIAN /\ rom_format = LITTLE_ENDIAN
    /\ RecordsFor(header_hex) = <<>> /\ RecordsFor(md5_hex) # <<>>
    /\ RecordsFor(md5_hex)[1].tags = <<T_sram32k, T_rpak>>
    /\ status[F_SAVE] = SRAM_32k /\ status[F_RPAK] = 1 /\ status[F_CPAK] = 0

\* A call has returned with no database match, for cartridge ID NZL, region
\* code 'E' and the boot-code checksum of the 6105/7105 entry, auto-detect on.
ZeldaByHeuristic ==
    /\ pc = "done" /\ ret = 1 /\ status[F_AUTO] = ON /\ ~rom_found_in_db
    /\ cart_id = Id3("N", "Z", "L") /\ region_code = Ord("E")
    /\ ipl3_crc = U64(0, \Hf8, \Hb860, \Hed00)

\* C14 as stated: in that case the store holds PAL, CIC 7105, 32 KiB SRAM
\* and rumble pak.
C14_ZeldaIsPal ==
    ZeldaByHeuristic =>
        /\ status[F_SYSTEM] = PAL /\ status[F_CIC] = CIC_NUS_7105
        /\ status[F_SAVE] = SRAM_32k /\ status[F_RPAK] = 1

\* C14, amended: in that case the store holds NTSC, CIC 6105, 32 KiB SRAM
\* and rumble pak.
C14_ZeldaIsNtsc ==
    ZeldaByHeuristic =>
        /\ status[F_SYSTEM] = NTSC /\ status[F_CIC] = CIC_NUS_6105
        /\ status[F_SAVE] = SRAM_32k /\ status[F_RPAK] = 1

\* C14 happens: such a call has returned, the heuristic resolver having
\* returned 0.
C14_Witness ==
    /\ ZeldaByHeuristic
    /\ \E k \in Calls("detect_rom_settings_from_first_chunk") : trace[k].val = 0
    /\ status[F_CIC] = CIC_NUS_6105

\* A call has returned after the lookups by header digest and by file digest
\* both missed.
BothLookupsMissed ==
    /\ pc = "done" /\ ret = 1
    /\ \E k \in CallsWith("detect_rom_settings_in_dbs", "header") : trace[k].val = 0
    /\ \E k \in CallsWith("detect_rom_settings_in_dbs", "file") : trace[k].val = 0

\* The notice shown is exactly the one for the failure of the heuristic:
\* 1 when the checksum has no entry, 2 when it has one and the cartridge ID
\* has none.
RightNotice ==
    \E c \in {CicOfCrc(ipl3_crc, NTSC)[1]} :
        /\ ~c => /\ \E k \in Calls("Info") : trace[k].val = 1
                 /\ \A k \in Calls("Info") : trace[k].val = 1
        /\ (c /\ ~CartOfId(cart_id, region_code, revision).known) =>
                 /\ \E k \in Calls("Info") : trace[k].val = 2
                 /\ \A k \in Calls("Info") : trace[k].val = 2

\* C17 as stated: after both lookups missed, the notice for the failure of
\* the heuristic is shown, whatever the auto-detect flag reads.
C17_NoticeAnyFlag == BothLookupsMissed => RightNotice

\* C17, amended: after both lookups missed and with auto-detect on, the
\* notice for the failure of the heuristic is shown.
C17_NoticeFlagOn == (BothLookupsMissed /\ status[F_AUTO] = ON) => RightNotice

\* C17 happens: with auto-detect on a call has returned after showing the
\* unknown-cartridge-ID notice.
C17_Witness ==
    /\ BothLookupsMissed /\ status[F_AUTO] = ON
    /\ CicOfCrc(ipl3_crc, NTSC)[1] /\ ~CartOfId(cart_id, region_code, revision).known
    /\ trace[Len(trace)] = Ev("Info", "", 2)

\* C20: when a call returns for a source of at least 4096 bytes with no
\* known magic, it has returned 1, the format detected is UNKNOWN, the bytes
\* forwarded are the bytes of the file, every chunk was hashed, the lookup
\* by header digest was made and, nothing being found, so were the lookup
\* by file digest and the heuristic call.
C20_UnknownFormat ==
    (pc = "done" /\ name.exists /\ name.enc = UNKNOWN /\ name.size >= BUF_SIZE) =>
        /\ ret = 1
        /\ rom_format = UNKNOWN
        /\ sink = FileBytes(name)
        /\ Cardinality(Calls("MD5Update")) = (name.size + BUF_SIZE - 1) \div BUF_SIZE
        /\ Cardinality(CallsWith("MD5Final", "file")) = 1
        /\ CallsWith("detect_rom_settings_in_dbs", "header") # {}
        /\ ~rom_found_in_db =>
              /\ CallsWith("detect_rom_settings_in_dbs", "file") # {}
              /\ Calls("detect_rom_settings_from_first_chunk") # {}

\* C20 happens: a source of two chunks with no known magic has been
\* forwarded unchanged and all three tiers were called.
C20_Witness ==
    /\ pc = "done" /\ ret = 1 /\ name.enc = UNKNOWN /\ name.size = 2 * BUF_SIZE
    /\ sink = FileBytes(name) /\ sink[1] # 128
    /\ CallsWith("detect_rom_settings_in_dbs", "header") # {}
    /\ CallsWith("detect_rom_settings_in_dbs", "file") # {}
    /\ Calls("detect_rom_settings_from_first_chunk") # {}

\* The first line of database file d that starts with key and has tags, as
\* a sequence of at most one line.
FirstRecord(d, key) ==
    With(LAMBDA hits : IF hits = <<>> THEN <<>> ELSE <<hits[1]>>,
         SelectSeq(LinesOf(d), LAMBDA l : l.head = key /\ l.hasTags))

\* Both database files have a record for the key, with different tags.
KeyInBothFiles ==
    /\ FirstRecord(db.files[1], db.key) # <<>>
    /\ FirstRecord(db.files[2], db.key) # <<>>
    /\ FirstRecord(db.files[1], db.key)[1].tags # FirstRecord(db.files[2], db.key)[1].tags

\* C12: when the built-in database (the first file) and the user database
\* (the second) both have a record for the key, with different tags, the
\* search reports a hit after consulting the first file only, and with
\* auto-detect on the fields written are the profile of the first file's
\* record, which is not the profile of the second file's.
C12_BuiltInFirst ==
    (db.pc = "done" /\ KeyInBothFiles) =>
        /\ db.found
        /\ db.consulted = <<1>>
        /\ db.auto = ON =>
              /\ db.writes = DbWrites(ApplyTags(DefaultProfile,
                                 FirstRecord(db.files[1], db.key)[1].tags, 1))
              /\ db.writes # DbWrites(ApplyTags(DefaultProfile,
                                 FirstRecord(db.files[2], db.key)[1].tags, 1))

\* C12 happens: the first file says sram32k|rpak, the second
\* pal|cic7101|cpak|eeprom512, and 32 KiB SRAM was written.
C12_Witness ==
    /\ db.pc = "done" /\ db.auto = ON /\ KeyInBothFiles
    /\ FirstRecord(db.files[1], db.key)[1].tags = <<T_sram32k, T_rpak>>
    /\ db.consulted = <<1>>
    /\ db.writes[7] = <<F_SAVE, SRAM_32k>> /\ db.writes[1] = <<F_SYSTEM, NTSC>>

C16_UnknownCartId ==
    (hs.pc = "ret" /\ hs.store0[F_AUTO] = ON /\ CicOfCrc(hs.crc, NTSC)[1]
        /\ ~CartOfId(hs.id, hs.region, hs.revision).known) =>
        /\ hs.ret = 2
        /\ [i \in 1..Len(hs.writes) |-> hs.writes[i][1]] = <<F_SYSTEM, F_CIC>>
        /\ \A fld \in {F_CPAK, F_RPAK, F_TPAK, F_RTC, F_SAVE, F_AUTO} :
              hs.store[fld] = hs.store0[fld]

\* C16 happens: the call has returned 2 after writing PAL and CIC 7105.
C16_Witness ==
    /\ hs.pc = "ret" /\ hs.ret = 2 /\ hs.id = Id3("Z", "Z", "Z")
    /\ hs.writes = << <<F_SYSTEM, PAL>>, <<F_CIC, CIC_NUS_7105>> >>

\* The second call returned and wrote what the first one did.
SameAsFirstCall ==
    hs.ret = hs.first.ret /\ hs.writes = hs.first.writes

\* C18 as stated: two calls with the same four arguments return the same
\* code and make the same writes, whatever the configuration store holds,
\* the auto-detect flag included.
C18_PureOfFour ==
    (hs.pc = "ret" /\ hs.call = 2) => SameAsFirstCall

\* C18, amended: two calls with the same four arguments and the same value
\* of the auto-detect flag return the same code and make the same writes,
\* whatever else the configuration store holds.
C18_PureOfFourAndFlag ==
    (hs.pc = "ret" /\ hs.call = 2 /\ hs.store0[F_AUTO] = hs.first.auto) => SameAsFirstCall

\* C18 happens: the second call, made on a store that said PAL, wrote NTSC
\* and the rumble pak of the revision-3 special case, as the first did.
C18_Witness ==
    /\ hs.pc = "ret" /\ hs.call = 2 /\ hs.store0[F_AUTO] = ON /\ hs.first.auto = ON
    /\ hs.store0[F_SYSTEM] = PAL
    /\ hs.id = Id3("N", "S", "M") /\ hs.region = Ord("J") /\ hs.revision = 3
    /\ Len(hs.writes) = 7
    /\ hs.writes[1] = <<F_SYSTEM, NTSC>> /\ hs.writes[4] = <<F_RPAK, 1>>
    /\ SameAsFirstCall

\* The two magic values of a format, as the bytes of the stream: cartridge
\* image, disk image.
MagicsOf(format) ==
    CASE format = BIG_ENDIAN -> {<<128, 55, 18, 64>>, <<128, 39, 7, 64>>}
      [] format = BYTE_SWAPPED -> {<<55, 128, 64, 18>>, <<39, 128, 64, 7>>}
      [] format = LITTLE_ENDIAN -> {<<64, 18, 55, 128>>, <<64, 7, 39, 128>>}
      [] OTHER -> {}

\* C19: detectRomFormat returns big-endian, byte-swapped or little-endian
\* exactly when the first four bytes are one of the two magic values of
\* that format, and UNKNOWN otherwise, whatever follows them.
C19_MagicDecidesFormat ==
    fd.pc = "done" =>
        /\ fd.result \in RomFormat
        /\ \A format \in {BIG_ENDIAN, BYTE_SWAPPED, LITTLE_ENDIAN} :
              (fd.result = format) <=> (SubSeq(fd.data, 1, 4) \in MagicsOf(format))

\* C19 happens: the byte-swapped disk magic is recognised though the
\* little-endian cartridge magic follows it.
C19_Witness ==
    /\ fd.pc = "done" /\ fd.result = BYTE_SWAPPED
    /\ fd.data = <<39, 128, 64, 7, 64, 18, 55, 128>>


(***************************************************************************)
(* Database tags.                                                          *)
(***************************************************************************)
ProbeProfile == [DefaultProfile EXCEPT !.system_type = PAL, !.cic = CIC_NUS_7101]

\* C21: database tags are case-insensitive: a record whose last tag is any
\* upper/lower-case spelling of a tag of the token table, the 14 CIC tags
\* included, ends the tag loop with that tag's local set to that tag's value
\* and the other locals as the tags before it left them.
C21_CaseInsensitive ==
    (db.pc = "tagsdone" /\ db.entry # 0) =>
        db.profile = [ProbeProfile EXCEPT ![TagTable[db.entry].field] = TagTable[db.entry].value]

\* The local a tag is about, "none" for a tag that is not in the token table.
Category(tag) ==
    LET rows == {e \in 1..Len(TagTable) : TagTable[e].tag = tag}
    IN  IF rows = {} THEN "none" ELSE TagTable[CHOOSE e \in rows : TRUE].field

OnePerCategory(tags) ==
    \A i, j \in 1..Len(tags) :
        Category(tags[i]) = Category(tags[j]) => tags[i] = tags[j]

\* C22 as stated: every reordering of a record's tag list ends the tag loop
\* with the same profile.
C22_AnyOrder ==
    db.pc = "tagsdone" => db.profile = db.profile2

\* C22, amended: every reordering of a tag list in which no two different
\* tags are about the same setting (save type, system type, CIC) ends the
\* tag loop with the same profile.
C22_AnyOrderOnePerCategory ==
    (db.pc = "tagsdone" /\ OnePerCategory(db.tags)) => db.profile = db.profile2

C22_Witness ==
    /\ db.pc = "tagsdone" /\ db.entry = 0
    /\ Len(db.tags) = 3 /\ db.other # db.tags /\ OnePerCategory(db.tags)
    /\ db.profile = db.profile2
    /\ db.profile.save_type = SRAM_32k /\ db.profile.system_type = PAL /\ db.profile.cpak


(***************************************************************************)
(* Boundary and error behaviour of the pipeline.                           *)
(***************************************************************************)

\* C23: every source shorter than 4096 bytes, the empty source included, is
\* rejected: no database lookup and no heuristic call is ever made for it,
\* and the call returns 0.
C23_ShorterThanHeader ==
    (name.exists /\ name.size < BUF_SIZE) =>
        /\ Calls("detect_rom_settings_in_dbs") = {}
        /\ Calls("detect_rom_settings_from_first_chunk") = {}
        /\ pc = "done" => ret = 0


\* The key of the lookup call at position i of the trace.
KeyOfLookup(i) == IF trace[i].arg = "header" THEN header_hex ELSE md5_hex

\* C24: a database file that cannot be opened counts as a file without
\* records: with the built-in database missing every lookup reports what
\* the user database alone has for the key, with both missing every lookup
\* reports not-found, and the call for a source of at least 4096 bytes
\* then goes on to the heuristic resolver, forwards the whole source and
\* returns 1.
C24_MissingDatabase ==
    ~dbs[1].exists =>
        /\ \A i \in Calls("detect_rom_settings_in_dbs") :
             trace[i].val = B2N(FirstRecord(dbs[2], KeyOfLookup(i)) # <<>>)
        /\ (~dbs[2].exists /\ pc = "done" /\ name.exists /\ name.size >= BUF_SIZE) =>
             /\ ret = 1 /\ Len(sink) = name.size
             /\ CallsWith("detect_rom_settings_in_dbs", "header") # {}
             /\ CallsWith("detect_rom_settings_in_dbs", "file") # {}
             /\ Calls("detect_rom_settings_from_first_chunk") # {}

\* C24 happens: a call has returned with the built-in database missing and
\* the profile taken from the user database's record for the file digest.
C24_Witness ==
    /\ pc = "done" /\ ret = 1 /\ status[F_AUTO] = ON
    /\ ~dbs[1].exists /\ dbs[2].exists
    /\ FirstRecord(dbs[2], md5_hex) # <<>>
    /\ \E i \in CallsWith("detect_rom_settings_in_dbs", "header") : trace[i].val = 0
    /\ \E i \in CallsWith("detect_rom_settings_in_dbs", "file") : trace[i].val = 1
    /\ HoldsProfileOf(dbs[2].lines[1])


\* C25: in a call for a source of at least 4096 bytes, every chunk handed
\* to normalizeData has a length that is a multiple of 4, whatever the size
\* of the source.
C25_ChunksOfWholeGroups ==
    (name.exists /\ name.size >= BUF_SIZE) =>
        \A i \in Calls("normalizeData") : trace[i].val % 4 = 0


(***************************************************************************)
(* First match wins.                                                       *)
(***************************************************************************)

\* The first line of file d whose leading 32 characters are the key,
\* whether or not tags follow them.
FirstKeyed(d, key) ==
    With(LAMBDA hits : IF hits = <<>> THEN <<>> ELSE <<hits[1]>>,
         SelectSeq(LinesOf(d), LAMBDA l : l.head = key))

\* C26 as stated: when lines of the database files start with the key, the
\* lookup reports a hit, the profile written (auto-detect on) is that of
\* the earliest such line of the first file that has one, and no later
\* file is consulted.
C26_FirstKeyedLineWins ==
    \A k \in 1..2 :
        (db.pc = "done" /\ Len(db.files) = 2
            /\ FirstKeyed(db.files[k], db.key) # <<>>
            /\ \A j \in 1..(k - 1) : FirstKeyed(db.files[j], db.key) = <<>>) =>
            /\ db.found
            /\ db.consulted = [j \in 1..k |-> j]
            /\ db.auto = ON =>
                 db.writes = DbWrites(ApplyTags(DefaultProfile,
                                 FirstKeyed(db.files[k], db.key)[1].tags, 1))

\* C26, amended: when lines of the database files start with the key and
\* have a tag field, the lookup reports a hit, the profile written
\* (auto-detect on) is that of the earliest such line of the first file
\* that has one, whatever lines follow it, and no later file is consulted;
\* a line that starts with the key and has no tag field is passed over.
C26_FirstTaggedLineWins ==
    \A k \in 1..2 :
        (db.pc = "done" /\ Len(db.files) = 2
            /\ FirstRecord(db.files[k], db.key) # <<>>
            /\ \A j \in 1..(k - 1) : FirstRecord(db.files[j], db.key) = <<>>) =>
            /\ db.found
            /\ db.consulted = [j \in 1..k |-> j]
            /\ db.auto = ON =>
                 db.writes = DbWrites(ApplyTags(DefaultProfile,
                                 FirstRecord(db.files[k], db.key)[1].tags, 1))

\* C26 happens: the first file has sram32k|rpak and then
\* pal|cic7101|cpak|eeprom512 for the key, the second file has a record for
\* it too, and 32 KiB SRAM, NTSC and CIC 6102 were written from the first file.
C26_Witness ==
    /\ db.pc = "done" /\ db.auto = ON /\ Len(db.files) = 2
    /\ db.files[1] = DbFile(<<Line(KeyOne, TagsA), Line(KeyOne, TagsB)>>)
    /\ FirstRecord(db.files[2], db.key) # <<>>
    /\ db.consulted = <<1>> /\ db.found
    /\ db.writes = DbWrites([DefaultProfile EXCEPT !.save_type = SRAM_32k, !.rpak = TRUE])


(***************************************************************************)
(* The order of the steps.                                                 *)
(***************************************************************************)

\* The per-chunk steps made so far and the taking of the digests, in order.
StepOps ==
    {"FileReadAdv", "detectRomFormat", "normalizeData", "MD5Update", "MD5Final",
     "user_io_file_tx_data"}
Steps ==
    With(LAMBDA es : [i \in 1..Len(es) |-> <<es[i].op, es[i].arg>>],
         SelectSeq(trace, LAMBDA e : e.op \in StepOps
                                       \/ (e.op = "ProgressMessage" /\ e.arg = "Loading")))

FirstChunkOrder ==
    << <<"FileReadAdv", "">>, <<"detectRomFormat", "">>, <<"normalizeData", "">>,
       <<"MD5Update", "">>, <<"MD5Final", "header">>, <<"user_io_file_tx_data", "">>,
       <<"ProgressMessage", "Loading">> >>
LaterChunkOrder ==
    << <<"FileReadAdv", "">>, <<"normalizeData", "">>, <<"MD5Update", "">>,
       <<"user_io_file_tx_data", "">>, <<"ProgressMessage", "Loading">> >>

RECURSIVE Repeat(_, _)
Repeat(s, n) == IF n = 0 THEN <<>> ELSE s \o Repeat(s, n - 1)

\* The steps of a whole call for a source of n chunks.
FullOrder(n) ==
    (IF n = 0 THEN <<>> ELSE FirstChunkOrder \o Repeat(LaterChunkOrder, n - 1))
        \o << <<"MD5Final", "file">> >>

NChunks(r) == (r.size + BUF_SIZE - 1) \div BUF_SIZE

IsPrefix(s, t) == Len(s) <= Len(t) /\ SubSeq(t, 1, Len(s)) = s

\* C27: the steps of every chunk are made in the order read, normalise,
\* hash update, forward, progress; the format is detected and the length
\* checked on the first chunk only, after its read and before its
\* normalisation; the header digest is taken on the first chunk only,
\* after its hash update and before its forwarding; the file digest is
\* taken once, after the last chunk has been hashed and forwarded.
C27_StepOrder ==
    name.exists =>
        /\ IsPrefix(Steps, FullOrder(NChunks(name)))
        /\ pc = "check" => Steps = << <<"FileReadAdv", "">> >>
        /\ (pc = "done" /\ ret = 1) => Steps = FullOrder(NChunks(name))

\* C27 happens: a call has returned for a source of two chunks after the
\* seven steps of the first, the five of the second and the file digest.
C27_Witness ==
    /\ pc = "done" /\ ret = 1 /\ name.exists /\ NChunks(name) = 2
    /\ Len(Steps) = 13
    /\ Steps[5] = <<"MD5Final", "header">> /\ Steps[8] = <<"FileReadAdv", "">>
    /\ Steps[13] = <<"MD5Final", "file">>


(***************************************************************************)
(* The header evidence.                                                    *)
(***************************************************************************)

HeaderMissed == \E j \in CallsWith("detect_rom_settings_in_dbs", "header") : trace[j].val = 0
FileMissed == \E j \in CallsWith("detect_rom_settings_in_dbs", "file") : trace[j].val = 0

\* The header evidence was taken once, right after a miss of the lookup by
\* header digest, with one chunk read.
EvidenceFromFirstChunk ==
    /\ Cardinality(Calls("evidence")) <= 1
    /\ \A i \in Calls("evidence") :
         /\ i > 1 /\ trace[i - 1].op = "detect_rom_settings_in_dbs"
         /\ trace[i - 1].arg = "header" /\ trace[i - 1].val = 0
         /\ Cardinality({j \in Calls("FileReadAdv") : j < i}) = 1
         /\ Calls("normalizeData") \cap 1..i # {}
         /\ cart_id = CString(name.id) /\ region_code = name.region
         /\ revision = name.revision /\ ipl3_crc = name.crc

DualCrcs ==
    {<<U64(0, \Ha3, \H16ad, \Hc55a), CIC_NUS_6102, CIC_NUS_7101>>,
     <<U64(0, \Ha9, \H229d, \H7c45), CIC_NUS_6103, CIC_NUS_7103>>,
     <<U64(0, \Hf8, \Hb860, \Hed00), CIC_NUS_6105, CIC_NUS_7105>>,
     <<U64(0, \Hba, \H5ba4, \Hb8cd), CIC_NUS_6106, CIC_NUS_7106>>}

\* The call wrote field fld once, with value v.
Wrote(fld, v) ==
    /\ \E i \in 1..Len(hs.writes) : hs.writes[i] = <<fld, v>>
    /\ Cardinality({i \in 1..Len(hs.writes) : hs.writes[i][1] = fld}) = 1

\* C29: in a call with auto-detect on and one of the four dual checksums
\* (6102/7101, 6103/7103, 6105/7105, 6106/7106), once the checksum switch is
\* passed the CIC written is the 6xxx one exactly when the system type the
\* region code gave is NTSC ('E', 'J') and the 7xxx one exactly when it is
\* PAL ('P'), and the system type written is that one.
C29_DualCic ==
    \A d \in DualCrcs :
        (hs.pc \in {"id", "ret"} /\ hs.store0[F_AUTO] = ON /\ hs.crc = d[1]) =>
            /\ hs.sys = (IF hs.region = Ord("P") THEN PAL ELSE NTSC)
            /\ Wrote(F_SYSTEM, hs.sys)
            /\ hs.sys = NTSC <=> Wrote(F_CIC, d[2])
            /\ hs.sys = PAL <=> Wrote(F_CIC, d[3])

\* C29 happens: the call has returned after writing PAL and CIC 7106 for
\* region 'P' and the 6106/7106 checksum.
C29_Witness ==
    /\ hs.pc = "ret" /\ hs.store0[F_AUTO] = ON
    /\ hs.region = Ord("P") /\ hs.crc = U64(0, \Hba, \H5ba4, \Hb8cd)
    /\ Wrote(F_SYSTEM, PAL) /\ Wrote(F_CIC, CIC_NUS_7106)

\* C30: when a call with auto-detect on and a known checksum returns for
\* cartridge ID NSM it has written EEPROM_512, and rumble-pak on exactly
\* for region 'J' and revision 3; for NWR EEPROM_512 and controller-pak on,
\* and rumble-pak on exactly for region 'J' and revision 2; for NK4
\* rumble-pak on, and SRAM_32k for region 'J' and revision below 2,
\* EEPROM_2k otherwise.
C30_SpecialCases ==
    (hs.pc = "ret" /\ hs.store0[F_AUTO] = ON /\ CicOfCrc(hs.crc, NTSC)[1]) =>
        /\ hs.id = Id3("N", "S", "M") =>
             /\ hs.ret = 0 /\ Wrote(F_SAVE, EEPROM_512)
             /\ Wrote(F_RPAK, B2N(hs.region = Ord("J") /\ hs.revision = 3))
        /\ hs.id = Id3("N", "W", "R") =>
             /\ hs.ret = 0 /\ Wrote(F_SAVE, EEPROM_512) /\ Wrote(F_CPAK, 1)
             /\ Wrote(F_RPAK, B2N(hs.region = Ord("J") /\ hs.revision = 2))
        /\ hs.id = Id3("N", "K", "4") =>
             /\ hs.ret = 0 /\ Wrote(F_RPAK, 1)
             /\ Wrote(F_SAVE, IF hs.region = Ord("J") /\ hs.revision < 2
                              THEN SRAM_32k ELSE EEPROM_2k)

\* C30 happens: the call has returned for NWR, region 'J', revision 2 with
\* rumble-pak and controller-pak on and EEPROM_512.
C30_Witness ==
    /\ hs.pc = "ret" /\ hs.store0[F_AUTO] = ON /\ hs.ret = 0
    /\ hs.id = Id3("N", "W", "R") /\ hs.region = Ord("J") /\ hs.revision = 2
    /\ Wrote(F_RPAK, 1) /\ Wrote(F_CPAK, 1) /\ Wrote(F_SAVE, EEPROM_512)


(***************************************************************************)
(* Notices and signals.                                                    *)
(***************************************************************************)

\* A resolution tier has succeeded: a database lookup has hit, or the
\* heuristic resolver has returned 0.
TierSucceeded ==
    \/ \E j \in Calls("detect_rom_settings_in_dbs") : trace[j].val = 1
    \/ \E j \in Calls("detect_rom_settings_from_first_chunk") : trace[j].val = 0

EndSignals == {j \in Calls("user_io_set_download") : trace[j].val = 0}

\* C31: no failure notice is ever shown in a call in which a database
\* lookup hits or the heuristic resolver returns 0; a call shows at most
\* one failure notice, and shows it after the end of transfer was signalled.
C31_NoticeOnlyOnFailure ==
    /\ TierSucceeded => Calls("Info") = {}
    /\ Cardinality(Calls("Info")) <= 1
    /\ \A k \in Calls("Info") : \E j \in EndSignals : j < k

\* C31 happens: a call has returned without a notice after both lookups
\* missed and the heuristic resolver, with auto-detect on, returned 0.
C31_Witness ==
    /\ BothLookupsMissed /\ status[F_AUTO] = ON
    /\ \E j \in Calls("detect_rom_settings_from_first_chunk") : trace[j].val = 0
    /\ Calls("Info") = {} /\ EndSignals # {}


(***************************************************************************)
(* The boot-code checksum.                                                 *)
(***************************************************************************)

\* The sum of the bytes at offset k (1..4) of the words lo..hi of data.
RECURSIVE ColumnSum(_, _, _, _)
ColumnSum(data, k, lo, hi) ==
    IF lo > hi THEN 0
    ELSE IF lo = hi THEN data[4 * lo + k]
    ELSE ColumnSum(data, k, lo, (lo + hi) \div 2)
            + ColumnSum(data, k, ((lo + hi) \div 2) + 1, hi)

\* The number b1 * 2^24 + b2 * 2^16 + b3 * 2^8 + b4 as a 64-bit value, the
\* b's being sums of at most 1008 bytes each.
AsU64(b1, b2, b3, b4) ==
    LET low == b4 + 256 * b3
        mid == b2 + 256 * b1 + (low \div 65536)
    IN  U64(0, mid \div 65536, mid % 65536, low % 65536)

\* The sum of the words FIRST_WORD..(n - 1) of data, each read with its
\* first byte most significant (big-endian), or least significant.
BigEndianSum(data, n) ==
    AsU64(ColumnSum(data, 1, FIRST_WORD, n - 1), ColumnSum(data, 2, FIRST_WORD, n - 1),
          ColumnSum(data, 3, FIRST_WORD, n - 1), ColumnSum(data, 4, FIRST_WORD, n - 1))
LittleEndianSum(data, n) ==
    AsU64(ColumnSum(data, 4, FIRST_WORD, n - 1), ColumnSum(data, 3, FIRST_WORD, n - 1),
          ColumnSum(data, 2, FIRST_WORD, n - 1), ColumnSum(data, 1, FIRST_WORD, n - 1))

\* The accumulator is at most 1008 * (2^32 - 1).
WithinBound == fd.acc[1] = 0 /\ fd.acc[2] <= (END_WORD - FIRST_WORD) - 1

\* C32 as stated: the boot-code checksum is the sum of the 1008 words at
\* byte offsets 0x40 up to 0x1000 of the normalised first chunk, each read
\* big-endian, and never exceeds 1008 * (2^32 - 1).
C32_BigEndianSum ==
    fd.pc = "summed" =>
        /\ fd.acc = BigEndianSum(fd.data, END_WORD)
        /\ WithinBound

\* C32, amended: the boot-code checksum is the sum of the 1008 words at
\* byte offsets 0x40 up to 0x1000 of the normalised first chunk, each read
\* in the byte order of the host, which is little-endian (first byte least
\* significant), and never exceeds 1008 * (2^32 - 1).
C32_HostOrderSum ==
    fd.pc = "summed" =>
        /\ fd.acc = LittleEndianSum(fd.data, END_WORD)
        /\ WithinBound
        /\ END_WORD - FIRST_WORD = 1008

\* C32 happens: 1008 words of 0xffffffff have been added up to
\* 1008 * (2^32 - 1) = 0x3ef fffffc10.
C32_Witness ==
    /\ fd.pc = "summed" /\ fd.data[1] = 255 /\ fd.data[2] = 255
    /\ fd.acc = U64(0, 1007, \Hffff, \Hfc10)


StartSignals == {j \in Calls("user_io_set_download") : trace[j].val = 1}

\* C33: when a call has returned, every start of transfer it signalled was
\* followed by an end of transfer, on every path, the abort for a short
\* source included.
C33_TransferEnded ==
    pc = "done" => \A i \in StartSignals : \E j \in EndSignals : i < j


(***************************************************************************)
(* Resolution and forwarding.                                              *)
(***************************************************************************)

Forwards == Calls("user_io_file_tx_data")

\* The lookup by header digest and the writes it makes.
HeaderTier ==
    CallsWith("detect_rom_settings_in_dbs", "header")
        \cup {w \in Calls("user_io_status_set") :
                 Origin(w) \in CallsWith("detect_rom_settings_in_dbs", "header")}

\* The lookup by file digest, the heuristic call, and the writes they make.
LateTiers ==
    CallsWith("detect_rom_settings_in_dbs", "file")
        \cup Calls("detect_rom_settings_from_first_chunk")
        \cup {w \in Calls("user_io_status_set") :
                 Origin(w) \in CallsWith("detect_rom_settings_in_dbs", "file")
                                 \cup Calls("detect_rom_settings_from_first_chunk")}

\* C34: the lookup by header digest and every write it makes come before
\* the first byte is forwarded, and no byte is forwarded without that
\* lookup having been made; the lookup by file digest, the heuristic call
\* and every write they make come after the whole source has been
\* forwarded and before the end of transfer is signalled.
C34_TiersAroundForwarding ==
    /\ \A i \in HeaderTier : \A j \in Forwards : i < j
    /\ Forwards # {} => CallsWith("detect_rom_settings_in_dbs", "header") # {}
    /\ \A i \in LateTiers :
         /\ \A j \in Forwards : j < i
         /\ Len(sink) = name.size
         /\ \A j \in EndSignals : i < j
    /\ (pc = "done" /\ ret = 1) => EndSignals # {}

\* C34 happens: a call for a source of two chunks has returned in which the
\* lookup by header digest missed and the lookup by file digest wrote the
\* seven fields after both chunks were forwarded.
C34_Witness ==
    /\ pc = "done" /\ ret = 1 /\ Cardinality(Forwards) = 2
    /\ HeaderTier # {}
    /\ Cardinality(LateTiers) = 8
    /\ Calls("detect_rom_settings_from_first_chunk") = {}


(***************************************************************************)
(* System type and CIC written by the heuristic resolver.                  *)
(***************************************************************************)
NtscCics == {CIC_NUS_6101, CIC_NUS_6102, CIC_NUS_6103, CIC_NUS_6105, CIC_NUS_6106}
PalCics == {CIC_NUS_7101, CIC_NUS_7102, CIC_NUS_7103, CIC_NUS_7105, CIC_NUS_7106}

\* C35: whenever the heuristic resolver has written system type and CIC,
\* a CIC of 6101, 6102, 6103, 6105 or 6106 was written with NTSC and a CIC
\* of 7101, 7102, 7103, 7105 or 7106 with PAL, whatever the region code;
\* the 7102 checksum gives 7102 and PAL and the 6101 checksum 6101 and NTSC
\* for every region code.
C35_SystemMatchesCic ==
    (hs.pc \in {"id", "ret"} /\ hs.writes # <<>>) =>
        /\ \A c \in NtscCics : Wrote(F_CIC, c) => Wrote(F_SYSTEM, NTSC)
        /\ \A c \in PalCics : Wrote(F_CIC, c) => Wrote(F_SYSTEM, PAL)
        /\ hs.crc = U64(0, \Ha4, \H0539, \H7b05) =>
             (Wrote(F_CIC, CIC_NUS_7102) /\ Wrote(F_SYSTEM, PAL))
        /\ hs.crc = U64(0, \Ha0, \Hf26f, \H62fe) =>
             (Wrote(F_CIC, CIC_NUS_6101) /\ Wrote(F_SYSTEM, NTSC))

\* C35 happens: for the NTSC region code 'E' and the 7102 checksum the
\* call has written PAL and CIC 7102.
C35_Witness ==
    /\ hs.pc = "ret" /\ hs.region = Ord("E") /\ hs.crc = U64(0, \Ha4, \H0539, \H7b05)
    /\ Wrote(F_SYSTEM, PAL) /\ Wrote(F_CIC, CIC_NUS_7102)


(***************************************************************************)
(* The fields a database hit writes.                                       *)
(***************************************************************************)

\* The lookup wrote field fld once, with value v.
DbWrote(fld, v) ==
    /\ \E i \in 1..Len(db.writes) : db.writes[i] = <<fld, v>>
    /\ Cardinality({i \in 1..Len(db.writes) : db.writes[i][1] = fld}) = 1

\* The record the lookup stopped at: the first one for the key in the
\* first file that has one.
HitRecord ==
    IF FirstRecord(db.files[1], db.key) # <<>> THEN FirstRecord(db.files[1], db.key)[1]
    ELSE FirstRecord(db.files[2], db.key)[1]

\* C36: a database hit with auto-detect on writes the seven fields (system
\* type, CIC, controller-pak, rumble-pak, transfer-pak, RTC, save type)
\* once each and nothing else: each setting a tag of the record names with
\* the tag's value, every other one with its default (NTSC, CIC 6102, no
\* save memory, false).
C36_SevenFieldsWithDefaults ==
    (db.pc = "done" /\ db.found /\ db.auto = ON) =>
        \E l \in {HitRecord} :
            /\ Len(db.writes) = 7
            /\ DbWrote(F_SYSTEM, IF TagIn(l, T_pal) THEN PAL ELSE NTSC)
            /\ DbWrote(F_CIC, IF TagIn(l, T_cic("7", "1", "0", "1"))
                              THEN CIC_NUS_7101 ELSE CIC_NUS_6102)
            /\ DbWrote(F_CPAK, B2N(TagIn(l, T_cpak)))
            /\ DbWrote(F_RPAK, B2N(TagIn(l, T_rpak)))
            /\ DbWrote(F_TPAK, B2N(TagIn(l, T_tpak)))
            /\ DbWrote(F_RTC, B2N(TagIn(l, T_rtc)))
            /\ DbWrote(F_SAVE, SaveNamedBy(l))

\* C36 happens: a record whose only tag is rpak was hit in the second file
\* and NTSC, CIC 6102, rumble-pak on and no save memory were written.
C36_Witness ==
    /\ db.pc = "done" /\ db.found /\ db.auto = ON /\ db.consulted = <<1, 2>>
    /\ HitRecord.tags = <<T_rpak>>
    /\ DbWrote(F_SYSTEM, NTSC) /\ DbWrote(F_CIC, CIC_NUS_6102)
    /\ DbWrote(F_RPAK, 1) /\ DbWrote(F_CPAK, 0) /\ DbWrote(F_SAVE, NONE)


(***************************************************************************)
(* Independence of the source encoding.                                    *)
(***************************************************************************)

\* The content of image r in big-endian (canonical) order: it is the same
\* for the three encodings of an image.
CanonStream(r) == [p \in 1..r.size |-> CanonByte(r, p - 1)]

\* C37: when a call has returned for a big-endian, byte-swapped or
\* little-endian encoding of an image whose length is a multiple of 4 (and
\* at least 4096), the bytes forwarded, the header digest, the file digest
\* and, where it was taken, the header evidence are those of the image's
\* canonical content, and the database is found to have a record exactly
\* when it has one for the canonical header digest or file digest: they do
\* not depend on the encoding.
C37_EncodingIndependent ==
    (pc = "done" /\ name.exists /\ name.enc \in {BIG_ENDIAN, BYTE_SWAPPED, LITTLE_ENDIAN}
        /\ name.size >= BUF_SIZE /\ name.size % 4 = 0) =>
        \E canon \in {CanonStream(name)} :
            /\ sink = canon
            /\ header_hex = HexOfBytes(SubSeq(canon, 1, BUF_SIZE))
            /\ md5_hex = HexOfBytes(canon)
            /\ Calls("evidence") # {} =>
                 /\ cart_id = CString(name.id) /\ region_code = name.region
                 /\ revision = name.revision /\ ipl3_crc = name.crc
            /\ rom_found_in_db <=>
                 (RecordsFor(HexOfBytes(SubSeq(canon, 1, BUF_SIZE))) # <<>>
                    \/ RecordsFor(HexOfBytes(canon)) # <<>>)

\* C37 happens: a call has returned for a little-endian file of 4100 bytes,
\* which is not its own canonical content; the canonical content was
\* forwarded and the evidence taken from it.
C37_Witness ==
    /\ pc = "done" /\ name.exists /\ name.enc = LITTLE_ENDIAN /\ name.size = BUF_SIZE + 4
    /\ sink = CanonStream(name) /\ sink # FileBytes(name)
    /\ Calls("evidence") # {} /\ cart_id = CString(name.id) /\ ipl3_crc = name.crc


\* Where the last chunk of file r starts, as an offset.
LastChunkStart(r) == ((r.size - 1) \div BUF_SIZE) * BUF_SIZE

\* C38: when a call has returned for a byte-swapped or little-endian source
\* (of at least 4096 bytes) whose length is not a multiple of the group
\* length of its byte order, every byte forwarded for the last chunk is one
\* of the bytes of that chunk in the file, and what was hashed is what was
\* forwarded: no byte that the previous chunk left in the buffer is
\* forwarded or hashed.
C38_NoStaleBytes ==
    (pc = "done" /\ name.exists /\ name.enc \in {BYTE_SWAPPED, LITTLE_ENDIAN}
        /\ name.size >= BUF_SIZE /\ name.size % GroupLen(name.enc) # 0) =>
        /\ Len(sink) = name.size
        /\ \A p \in (LastChunkStart(name) + 1)..name.size :
              \E q \in (LastChunkStart(name) + 1)..name.size :
                  sink[p] = FileBytes(name)[q]
        /\ md5_hex = HexOfBytes(sink)


====
